---- MODULE Spec2Model ----
(***************************************************************************)
(* honeybee-energy: the annual schedule resolution engine.                 *)
(*   honeybee_energy/schedule/rule.py     ScheduleRule                     *)
(*   honeybee_energy/schedule/ruleset.py  ScheduleRuleset                  *)
(* A ScheduleRule pairs a ScheduleDay with day-of-week flags, a holiday    *)
(* flag and a date range; a ScheduleRuleset holds a default ScheduleDay    *)
(* and a priority-ordered list of rules and is expanded by values() or     *)
(* compacted into a Schedule:Year / Schedule:Week:Daily calendar by        *)
(* to_idf().                                                               *)
(***************************************************************************)
EXTENDS Integers, Sequences, FiniteSets, TLC

VARIABLES
    schedule_rules,             \* ScheduleRuleset._schedule_rules (index 1 = Python index 0)
    default_day_schedule,       \* name of ScheduleRuleset._default_day_schedule
    summer_designday_schedule,  \* name of the summer design day, or None
    winter_designday_schedule,  \* name of the winter design day, or None
    name,                       \* ScheduleRuleset._name
    schedule_type_limit,        \* name of ScheduleRuleset._schedule_type_limit, or None
    locked,                     \* ScheduleRuleset._locked
    other,                      \* a second ScheduleRuleset (a duplicate), or None
    setpoint,                   \* a Setpoint (load/setpoint.py), or NoSetpoint
    rooms,                      \* the RoomEnergyProperties objects: host Room and hvac
    hvacs,                      \* IdealAirSystem._parent of every IdealAirSystem made
    model,                      \* a Model: its schedule objects and where they are assigned
    sets,                       \* two ScheduleRulesets that refer to ScheduleDay objects
    day_locked,                 \* ScheduleDay._locked of every ScheduleDay object
    rule,                       \* a ScheduleRule that belongs to no ruleset, or NoRule
    ret                         \* what the last call returned (or raised)

vars == <<schedule_rules, default_day_schedule, summer_designday_schedule,
          winter_designday_schedule, name, schedule_type_limit, locked, other,
          setpoint, rooms, hvacs, model, sets, day_locked, rule, ret>>

None == "None"

\* no second ruleset has been made yet
NoOther == [name |-> None]

(***************************************************************************)
(* ladybug.dt.Date as the schedule code uses it: Date(month, day,          *)
(* leap_year) is a datetime.date of the year 2016 (leap) or 2017, so doy   *)
(* counts Feb 29 in a leap year only and comparisons order every leap date *)
(* before every non-leap date.                                             *)
(***************************************************************************)
Date(month, day, leap_year) ==
    [month |-> month, day |-> day, leap_year |-> leap_year]

\* the absent date argument (Python None)
NoDate == Date(0, 0, FALSE)

DaysInMonth(month, leap_year) ==
    CASE month = 2 -> IF leap_year THEN 29 ELSE 28
      [] month \in {4, 6, 9, 11} -> 30
      [] OTHER -> 31

RECURSIVE DaysBeforeMonth(_, _)
DaysBeforeMonth(month, leap_year) ==
    IF month <= 1 THEN 0
    ELSE DaysBeforeMonth(month - 1, leap_year) + DaysInMonth(month - 1, leap_year)

\* Date(month, day, leap_year) raises ValueError for a day the month does not have
DateExists(month, day, leap_year) ==
    /\ month \in 1..12
    /\ day \in 1..DaysInMonth(month, leap_year)

\* Date.doy
Doy(date) == DaysBeforeMonth(date.month, date.leap_year) + date.day

RECURSIVE MonthOfDoy(_, _, _)
MonthOfDoy(doy, month, leap_year) ==
    IF doy <= DaysBeforeMonth(month + 1, leap_year) THEN month
    ELSE MonthOfDoy(doy, month + 1, leap_year)

\* Date.from_doy(doy, leap_year)
DateFromDoy(doy, leap_year) ==
    LET m == MonthOfDoy(doy, 1, leap_year)
    IN  Date(m, doy - DaysBeforeMonth(m, leap_year), leap_year)

\* datetime.date ordering: year (2016 when leap_year, else 2017), then month, day
DateOrdinal(date) == (IF date.leap_year THEN 0 ELSE 366) + Doy(date)
DateLT(a, b) == DateOrdinal(a) < DateOrdinal(b)
DateLE(a, b) == DateOrdinal(a) <= DateOrdinal(b)

(***************************************************************************)
(* ScheduleRule                                                            *)
(***************************************************************************)
NoRule == [schedule_day |-> None]

_year_start == Date(1, 1, FALSE)
_year_end == Date(12, 31, FALSE)

\* ScheduleRule._doy_non_leap_year
_doy_non_leap_year(date) ==
    IF ~date.leap_year THEN Doy(date)
    ELSE IF DateLE(date, Date(2, 29, TRUE)) THEN Doy(date) ELSE Doy(date) - 1

\* ScheduleRule._check_start_before_end: the assertion holds
_check_start_before_end(start_date, end_date) == DateLT(start_date, end_date)

\* ScheduleRule.__init__ does not raise for these dates
ScheduleRuleInitOk(start_date, end_date) ==
    LET sd == IF start_date # NoDate THEN start_date ELSE _year_start
        ed == IF end_date # NoDate THEN end_date ELSE _year_end
    IN  _check_start_before_end(sd, ed)

\* ScheduleRule.__init__: wk is the seven apply_sunday .. apply_saturday arguments;
\* id is the identity of the rule object and day_id that of its schedule_day
\* (0 where no call tells objects apart)
ScheduleRule(schedule_day, wk, apply_holiday, start_date, end_date) ==
    LET sd == IF start_date # NoDate THEN start_date ELSE _year_start
        ed == IF end_date # NoDate THEN end_date ELSE _year_end
    IN  [schedule_day |-> schedule_day,
         apply_sunday |-> wk[1], apply_monday |-> wk[2], apply_tuesday |-> wk[3],
         apply_wednesday |-> wk[4], apply_thursday |-> wk[5],
         apply_friday |-> wk[6], apply_saturday |-> wk[7],
         apply_holiday |-> apply_holiday,
         start_date |-> sd, end_date |-> ed,
         start_doy |-> _doy_non_leap_year(sd),
         end_doy |-> _doy_non_leap_year(ed),
         _locked |-> FALSE, id |-> 0, day_id |-> 0]

\* ScheduleRule.week_apply_tuple
week_apply_tuple(r) ==
    <<r.apply_sunday, r.apply_monday, r.apply_tuesday, r.apply_wednesday,
      r.apply_thursday, r.apply_friday, r.apply_saturday>>

\* Python tuple indexing t[i] for -len <= i < len (a negative index counts from the end)
PyIndex(t, i) == IF i < 0 THEN t[Len(t) + i + 1] ELSE t[i + 1]

\* ScheduleRule.does_rule_apply_doy
does_rule_apply_doy(r, doy) == r.start_doy <= doy /\ doy <= r.end_doy

\* the leap-year start and end doy that does_rule_apply_doy_leap_year computes
LeapStDoyMutAlwaysShift(r) == r.start_doy + 1
LeapStDoy(r) == IF r.start_date.month <= 2 THEN r.start_doy ELSE r.start_doy + 1
LeapEndDoy(r) == IF r.end_date.month <= 2 THEN r.end_doy ELSE r.end_doy + 1

\* ScheduleRule.does_rule_apply_doy_leap_year
does_rule_apply_doy_leap_year(r, doy) == LeapStDoy(r) <= doy /\ doy <= LeapEndDoy(r)

\* dow = dow if dow is not None else doy % 7   (dow = 0 stands for None)
DowOrDefault(doy, dow) == IF dow # 0 THEN dow ELSE doy % 7

\* ScheduleRule.does_rule_apply
DoesRuleApplyMutNoWrap(r, doy, dow) ==
    /\ does_rule_apply_doy(r, doy)
    /\ DowOrDefault(doy, dow) # 0
    /\ week_apply_tuple(r)[DowOrDefault(doy, dow)]
does_rule_apply(r, doy, dow) ==
    /\ does_rule_apply_doy(r, doy)
    /\ PyIndex(week_apply_tuple(r), DowOrDefault(doy, dow) - 1)

\* ScheduleRule.does_rule_apply_leap_year
does_rule_apply_leap_year(r, doy, dow) ==
    /\ does_rule_apply_doy_leap_year(r, doy)
    /\ PyIndex(week_apply_tuple(r), DowOrDefault(doy, dow) - 1)

(***************************************************************************)
(* Python list operations on a sequence (Python index i is element i + 1)  *)
(***************************************************************************)
\* list[i] and del list[i] raise IndexError unless -len <= i < len
PyIndexOk(seq, i) == -Len(seq) <= i /\ i < Len(seq)

PyPos(seq, i) == IF i < 0 THEN Len(seq) + i + 1 ELSE i + 1

\* del list[i]; also what is left after list.pop(i)
PyDel(seq, i) ==
    LET p == PyPos(seq, i)
    IN  [k \in 1..(Len(seq) - 1) |-> IF k < p THEN seq[k] ELSE seq[k + 1]]

\* list.insert(i, x): an index beyond either end is clipped to that end
PyInsert(seq, i, x) ==
    LET j == IF i < 0 THEN i + Len(seq) ELSE i
        at == IF j < 0 THEN 0 ELSE IF j > Len(seq) THEN Len(seq) ELSE j
    IN  [k \in 1..(Len(seq) + 1) |->
            IF k <= at THEN seq[k] ELSE IF k = at + 1 THEN x ELSE seq[k - 1]]

(***************************************************************************)
(* ScheduleDay (honeybee_energy/schedule/day.py): a day profile is known   *)
(* by its name; values_at_timestep(timestep) is its list of 24 * timestep  *)
(* values, kept as the profile and the number of values.                   *)
(***************************************************************************)
values_at_timestep(schedule_day, timestep) ==
    [day |-> schedule_day, n |-> 24 * timestep]

(***************************************************************************)
(* ScheduleRuleset.values()                                                *)
(***************************************************************************)
\* ScheduleRuleset._dow_text_to_int
_dow_text_to_int(start_dow) ==
    CASE start_dow = "sunday" -> 1
      [] start_dow = "monday" -> 2
      [] start_dow = "tuesday" -> 3
      [] start_dow = "wednesday" -> 4
      [] start_dow = "thursday" -> 2
      [] start_dow = "friday" -> 3
      [] start_dow = "saturday" -> 7

\* sch_day_vals: the values of every rule's day, then those of the default day
SchDayVals(rules, default, timestep) ==
    [k \in 1..(Len(rules) + 1) |->
        IF k <= Len(rules) THEN values_at_timestep(rules[k].schedule_day, timestep)
        ELSE values_at_timestep(default, timestep)]

\* for i, rule in enumerate(self._schedule_rules): the first i from which on a
\* rule passes the holiday test (apply_holiday and the date range); the for's
\* else branch is Len(rules), the place of the default day in sch_day_vals
RECURSIVE FirstHolidayRule(_, _, _, _)
FirstHolidayRule(rules, i, doy, leap_year) ==
    IF i >= Len(rules) THEN Len(rules)
    ELSE IF /\ rules[i + 1].apply_holiday
            /\ IF leap_year THEN does_rule_apply_doy_leap_year(rules[i + 1], doy)
               ELSE does_rule_apply_doy(rules[i + 1], doy)
         THEN i
         ELSE FirstHolidayRule(rules, i + 1, doy, leap_year)

\* the same scan on a day that is not a holiday: does_rule_apply(doy, dow)
RECURSIVE FirstApplyingRule(_, _, _, _, _)
FirstApplyingRule(rules, i, doy, dow, leap_year) ==
    IF i >= Len(rules) THEN Len(rules)
    ELSE IF IF leap_year THEN does_rule_apply_leap_year(rules[i + 1], doy, dow)
            ELSE does_rule_apply(rules[i + 1], doy, dow)
         THEN i
         ELSE FirstApplyingRule(rules, i + 1, doy, dow, leap_year)

\* one turn of the loop over doy: the index into sch_day_vals it extends values by
DayIndexMutLastWins(rules, doy, dow, hol_doy, leap_year) ==
    LET hits == {i \in 0..(Len(rules) - 1) :
                    IF doy \in hol_doy
                    THEN FirstHolidayRule(rules, i, doy, leap_year) = i
                    ELSE FirstApplyingRule(rules, i, doy, dow, leap_year) = i}
    IN  IF hits = {} THEN Len(rules)
        ELSE CHOOSE i \in hits : \A j \in hits : j <= i
DayIndexMutHolidayUsesDow(rules, doy, dow, hol_doy, leap_year) ==
    FirstApplyingRule(rules, 0, doy, dow, leap_year)
DayIndex(rules, doy, dow, hol_doy, leap_year) ==
    IF doy \in hol_doy
    THEN FirstHolidayRule(rules, 0, doy, leap_year)
    ELSE FirstApplyingRule(rules, 0, doy, dow, leap_year)

\* the loop of _get_sch_values (leap_year FALSE) and _get_sch_values_leap_year
\* (leap_year TRUE); every turn extends values by one day's values, kept with
\* the turn's doy, dow and index i
RECURSIVE SchValuesDays(_, _, _, _, _, _, _)
SchValuesDays(rules, sch_day_vals, doy, end_doy, dow, hol_doy, leap_year) ==
    IF doy > end_doy THEN << >>
    ELSE LET d == IF dow > 7 THEN 1 ELSE dow
             i == DayIndex(rules, doy, d, hol_doy, leap_year)
         IN  <<[doy |-> doy, dow |-> d, hol |-> doy \in hol_doy, i |-> i,
                vals |-> sch_day_vals[i + 1]]>>
             \o SchValuesDays(rules, sch_day_vals, doy + 1, end_doy, d + 1,
                              hol_doy, leap_year)

\* the same loop taken four weeks at a time (dow is handed from one stretch of
\* days to the next as the loop leaves it)
RECURSIVE SchValuesLoop(_, _, _, _, _, _, _)
SchValuesLoop(rules, sch_day_vals, doy, end_doy, dow, hol_doy, leap_year) ==
    IF doy > end_doy THEN << >>
    ELSE LET stop == IF doy + 27 < end_doy THEN doy + 27 ELSE end_doy
             days == SchValuesDays(rules, sch_day_vals, doy, stop, dow,
                                   hol_doy, leap_year)
         IN  days \o SchValuesLoop(rules, sch_day_vals, stop + 1, end_doy,
                                   days[Len(days)].dow + 1, hol_doy, leap_year)

\* ScheduleRuleset._get_sch_values
GetSchValuesMutExclusiveEnd(rules, sch_day_vals, dow, start_date, end_date, hol_doy) ==
    SchValuesLoop(rules, sch_day_vals, Doy(start_date), Doy(end_date) - 1, dow,
                  hol_doy, FALSE)
_get_sch_values(rules, sch_day_vals, dow, start_date, end_date, hol_doy) ==
    SchValuesLoop(rules, sch_day_vals, Doy(start_date), Doy(end_date), dow,
                  hol_doy, FALSE)

\* ScheduleRuleset._get_sch_values_leap_year
_get_sch_values_leap_year(rules, sch_day_vals, dow, start_date, end_date, hol_doy) ==
    SchValuesLoop(rules, sch_day_vals, Doy(start_date), Doy(end_date), dow,
                  hol_doy, TRUE)

\* if date.leap_year is not leap_year: date = Date(date.month, date.day, leap_year)
InYearMutAsSupplied(date, leap_year) == date
InYear(date, leap_year) == Date(date.month, date.day, leap_year)

\* what values() raises, or None
ValuesRaises(start_date, end_date, holidays, leap_year) ==
    IF \/ ~DateExists(start_date.month, start_date.day, leap_year)
       \/ ~DateExists(end_date.month, end_date.day, leap_year)
    THEN "ValueError"
    ELSE IF ~DateLE(InYear(start_date, leap_year), InYear(end_date, leap_year))
    THEN "AssertionError"
    ELSE IF \E hol \in holidays : ~DateExists(hol.month, hol.day, leap_year)
    THEN "ValueError"
    ELSE None

(***************************************************************************)
(* Inputs of the rule-level specification                                  *)
(***************************************************************************)
Weekdays == <<FALSE, TRUE, TRUE, TRUE, TRUE, TRUE, FALSE>>
Weekend == <<TRUE, FALSE, FALSE, FALSE, FALSE, FALSE, TRUE>>
MondayOnly == <<FALSE, TRUE, FALSE, FALSE, FALSE, FALSE, FALSE>>
RuleWeekMasks == {Weekdays, Weekend}

RuleStartDates ==
    {NoDate, Date(1, 1, TRUE), Date(2, 29, TRUE), Date(3, 1, FALSE),
     Date(3, 1, TRUE)}
RuleEndDates ==
    {NoDate, Date(2, 28, FALSE), Date(2, 29, TRUE), Date(3, 1, TRUE),
     Date(12, 31, TRUE)}

\* days of the year asked about: the ends of the first weeks, the days around
\* the end of February and the end of the year
QueryDoys == {1, 7, 8, 14, 58, 59, 60, 61, 62, 365}
QueryDoysLeapYear == QueryDoys \cup {366}
\* 0 stands for dow=None
QueryDows == 0..7

ruleset_vars == <<schedule_rules, default_day_schedule,
                  summer_designday_schedule, winter_designday_schedule,
                  name, schedule_type_limit, locked, other>>

\* the objects of the other classes
shared_vars == <<sets, day_locked>>
energy_vars == <<setpoint, rooms, hvacs, model, shared_vars>>

\* no Setpoint has been constructed yet
NoSetpoint == [name |-> None]

\* the ScheduleDay objects there are
MaxDays == 2

\* ScheduleRuleset.__init__ with ScheduleDay objects (0 stands for None) and
\* no rules: the ruleset is not locked, the days are left as they are
NewRuleset(default_day, summer_designday, winter_designday) ==
    [_locked |-> FALSE, default_day_schedule |-> default_day,
     summer_designday_schedule |-> summer_designday,
     winter_designday_schedule |-> winter_designday,
     schedule_rules |-> << >>]

\* a schedule of the Model: its name and what makes up the rest of its __key
ModelSchedule(schedule_name, value) == [name |-> schedule_name, value |-> value]

\* a Model of one Room with a program type and a Shade: schedules are the
\* schedule objects (a schedule is referred to by its index, 0 stands for
\* None); the program type has schedule 1, the lighting, the transmittance
\* schedule of the Shade and the hvac of the Room are not set
InitModel ==
    [schedules |-> <<ModelSchedule("Office Occ", 1),
                     ModelSchedule("Fritted Glass", 6),
                     ModelSchedule("Half Occupied", 5),
                     ModelSchedule("Half Lit", 5)>>,
     program_type |-> <<1>>,
     lighting |-> 0,
     transmittance_schedule |-> 0,
     hvac |-> [is_none |-> TRUE, heating_availability_schedule |-> 0,
               cooling_availability_schedule |-> 0]]

\* RoomEnergyProperties(host): program_type, construction_set and hvac are None.
\* A Room and an IdealAirSystem are known by a number, 0 stands for None.
RoomEnergyProperties(host) == [host |-> host, hvac |-> 0]

\* two Rooms, no IdealAirSystem
InitEnergy ==
    /\ setpoint = NoSetpoint
    /\ rooms = <<RoomEnergyProperties(1), RoomEnergyProperties(2)>>
    /\ hvacs = << >>
    /\ model = InitModel
    /\ sets = <<NewRuleset(1, 0, 0), NewRuleset(2, 0, 0)>>
    /\ day_locked = [d \in 1..MaxDays |-> FALSE]

InitRule ==
    /\ name = "Sched"
    /\ schedule_type_limit = None
    /\ locked = FALSE
    /\ other = NoOther
    /\ schedule_rules = << >>
    /\ default_day_schedule = "Dflt"
    /\ summer_designday_schedule = None
    /\ winter_designday_schedule = None
    /\ rule = NoRule
    /\ InitEnergy
    /\ ret = [op |-> "init"]

\* rule = ScheduleRule(schedule_day, ..., start_date, end_date)
NewRule(schedule_day, wk, apply_holiday, start_date, end_date) ==
    /\ IF ScheduleRuleInitOk(start_date, end_date)
       THEN /\ rule' = ScheduleRule(schedule_day, wk, apply_holiday,
                                    start_date, end_date)
            /\ ret' = [op |-> "ScheduleRule", raised |-> None,
                       start_date |-> rule'.start_date,
                       end_date |-> rule'.end_date]
       ELSE /\ rule' = rule
            /\ ret' = [op |-> "ScheduleRule", raised |-> "AssertionError",
                       start_date |-> IF start_date # NoDate THEN start_date
                                      ELSE _year_start,
                       end_date |-> IF end_date # NoDate THEN end_date
                                    ELSE _year_end]
    /\ UNCHANGED <<ruleset_vars, energy_vars>>

\* rule.does_rule_apply(doy, dow)
DoesRuleApply(doy, dow) ==
    /\ rule # NoRule
    /\ ret' = [op |-> "does_rule_apply", doy |-> doy, dow |-> dow,
               result |-> does_rule_apply(rule, doy, dow)]
    /\ UNCHANGED <<ruleset_vars, rule, energy_vars>>

\* rule.does_rule_apply_leap_year(doy, dow)
DoesRuleApplyLeapYear(doy, dow) ==
    /\ rule # NoRule
    /\ ret' = [op |-> "does_rule_apply_leap_year", doy |-> doy, dow |-> dow,
               result |-> does_rule_apply_leap_year(rule, doy, dow)]
    /\ UNCHANGED <<ruleset_vars, rule, energy_vars>>

\* rule.does_rule_apply_doy(doy)
DoesRuleApplyDoy(doy) ==
    /\ rule # NoRule
    /\ ret' = [op |-> "does_rule_apply_doy", doy |-> doy,
               result |-> does_rule_apply_doy(rule, doy)]
    /\ UNCHANGED <<ruleset_vars, rule, energy_vars>>

\* rule.does_rule_apply_doy_leap_year(doy); st_doy and end_doy are its locals
DoesRuleApplyDoyLeapYear(doy) ==
    /\ rule # NoRule
    /\ ret' = [op |-> "does_rule_apply_doy_leap_year", doy |-> doy,
               st_doy |-> LeapStDoy(rule), end_doy |-> LeapEndDoy(rule),
               result |-> does_rule_apply_doy_leap_year(rule, doy)]
    /\ UNCHANGED <<ruleset_vars, rule, energy_vars>>

NextRule ==
    \/ \E wk \in RuleWeekMasks, sd \in RuleStartDates, ed \in RuleEndDates :
            NewRule("A", wk, FALSE, sd, ed)
    \/ \E doy \in QueryDoys, dow \in QueryDows : DoesRuleApply(doy, dow)
    \/ \E doy \in QueryDoysLeapYear, dow \in QueryDows :
            DoesRuleApplyLeapYear(doy, dow)
    \/ \E doy \in QueryDoys : DoesRuleApplyDoy(doy)
    \/ \E doy \in QueryDoysLeapYear : DoesRuleApplyDoyLeapYear(doy)

SpecRule == InitRule /\ [][NextRule]_vars

(***************************************************************************)
(* ScheduleRule: assignment of start_date, end_date and apply_holiday      *)
(***************************************************************************)
\* honeybee._lockable.lockable: assigning an attribute of a locked object raises
\* AttributeError
SetAttrRaises(is_locked) == IF is_locked THEN "AttributeError" ELSE None

\* the start_date setter applied to rule r: what it raises and the rule it
\* leaves. _start_date is assigned before _check_start_before_end, _start_doy
\* after it
StartDateSetter(r, value) ==
    LET start_date == IF value # NoDate THEN value ELSE _year_start
        assigned == [r EXCEPT !.start_date = start_date]
    IN  IF SetAttrRaises(r._locked) # None
        THEN [raised |-> SetAttrRaises(r._locked), rule |-> r]
        ELSE IF ~_check_start_before_end(start_date, r.end_date)
        THEN [raised |-> "AssertionError", rule |-> assigned]
        ELSE [raised |-> None,
              rule |-> [assigned EXCEPT
                           !.start_doy = _doy_non_leap_year(start_date)]]

\* the end_date setter applied to rule r
EndDateSetter(r, value) ==
    LET end_date == IF value # NoDate THEN value ELSE _year_end
        assigned == [r EXCEPT !.end_date = end_date]
    IN  IF SetAttrRaises(r._locked) # None
        THEN [raised |-> SetAttrRaises(r._locked), rule |-> r]
        ELSE IF ~_check_start_before_end(r.start_date, end_date)
        THEN [raised |-> "AssertionError", rule |-> assigned]
        ELSE [raised |-> None,
              rule |-> [assigned EXCEPT
                           !.end_doy = _doy_non_leap_year(end_date)]]

\* the apply_holiday setter applied to rule r
ApplyHolidaySetter(r, value) ==
    IF SetAttrRaises(r._locked) # None
    THEN [raised |-> SetAttrRaises(r._locked), rule |-> r]
    ELSE [raised |-> None, rule |-> [r EXCEPT !.apply_holiday = value]]

\* rule.start_date = value
SetStartDate(value) ==
    /\ rule # NoRule
    /\ rule' = StartDateSetter(rule, value).rule
    /\ ret' = [op |-> "set_start_date",
               raised |-> StartDateSetter(rule, value).raised,
               start_date |-> IF value # NoDate THEN value ELSE _year_start,
               end_date |-> rule.end_date]
    /\ UNCHANGED <<ruleset_vars, energy_vars>>

\* rule.end_date = value
SetEndDate(value) ==
    /\ rule # NoRule
    /\ rule' = EndDateSetter(rule, value).rule
    /\ ret' = [op |-> "set_end_date",
               raised |-> EndDateSetter(rule, value).raised,
               start_date |-> rule.start_date,
               end_date |-> IF value # NoDate THEN value ELSE _year_end]
    /\ UNCHANGED <<ruleset_vars, energy_vars>>

\* the dates a rule is constructed with and assigned
AssignedDates ==
    {NoDate, Date(1, 1, FALSE), Date(3, 1, FALSE), Date(8, 31, FALSE),
     Date(12, 31, FALSE), Date(2, 29, TRUE)}

NextRuleDates ==
    \/ \E sd \in AssignedDates, ed \in AssignedDates :
            NewRule("A", Weekdays, FALSE, sd, ed)
    \/ \E value \in AssignedDates : SetStartDate(value)
    \/ \E value \in AssignedDates : SetEndDate(value)

SpecRuleDates == InitRule /\ [][NextRuleDates]_vars

(***************************************************************************)
(* Claims about ScheduleRule (checked under SpecRule)                      *)
(***************************************************************************)
\* the day of the week of a day of the year when day 1 is a Sunday (1 = Sunday)
DowOfDoy(doy) == ((doy - 1) % 7) + 1

\* the rule's flag for a day of the week, 1 = Sunday ... 7 = Saturday
DowFlag(r, dow) ==
    CASE dow = 1 -> r.apply_sunday
      [] dow = 2 -> r.apply_monday
      [] dow = 3 -> r.apply_tuesday
      [] dow = 4 -> r.apply_wednesday
      [] dow = 5 -> r.apply_thursday
      [] dow = 6 -> r.apply_friday
      [] dow = 7 -> r.apply_saturday

\* C3: on a day that is not a holiday a rule applies to (doy, dow) exactly when
\* start_doy <= doy <= end_doy and its flag for dow (1 = Sunday ... 7 = Saturday)
\* is true; an omitted dow is the weekday of doy in a year whose day 1 is a Sunday.
C3_AppliesIffInRangeAndFlag ==
    ret.op = "does_rule_apply" =>
        LET dow == IF ret.dow # 0 THEN ret.dow ELSE DowOfDoy(ret.doy)
        IN  ret.result <=> /\ rule.start_doy <= ret.doy
                           /\ ret.doy <= rule.end_doy
                           /\ DowFlag(rule, dow)

\* a Saturday found by the default dow (doy % 7 = 0) on which the rule applies
C3_Witness ==
    /\ ret.op = "does_rule_apply"
    /\ ret.dow = 0
    /\ ret.doy % 7 = 0
    /\ ret.result

\* C5: in a leap-year query the start (end) doy is the stored non-leap doy plus 1
\* when the start (end) month is March to December and the stored doy itself in
\* January and February; a date given in a leap calendar after Feb 29 is stored
\* as its leap doy minus 1.
C5_LeapYearDoyShift ==
    /\ ret.op = "does_rule_apply_doy_leap_year" =>
        /\ ret.st_doy = rule.start_doy
                          + (IF rule.start_date.month \in 3..12 THEN 1 ELSE 0)
        /\ ret.end_doy = rule.end_doy
                          + (IF rule.end_date.month \in 3..12 THEN 1 ELSE 0)
        /\ ret.result <=> (ret.st_doy <= ret.doy /\ ret.doy <= ret.end_doy)
    /\ rule # NoRule =>
        /\ (rule.start_date.leap_year /\ rule.start_date.month >= 3)
              => rule.start_doy = Doy(rule.start_date) - 1
        /\ (rule.end_date.leap_year /\ rule.end_date.month >= 3)
              => rule.end_doy = Doy(rule.end_date) - 1

\* a rule given leap-calendar dates from Mar 1 on, asked about Mar 1 of a leap year
C5_Witness ==
    /\ ret.op = "does_rule_apply_doy_leap_year"
    /\ rule.start_date = Date(3, 1, TRUE)
    /\ rule.end_date = Date(12, 31, TRUE)
    /\ rule.start_doy = 60 /\ ret.st_doy = 61 /\ ret.doy = 61
    /\ ret.result

\* the rule's range ends at the end of February
EndsEndOfFebruary(r) == r.end_date.month = 2 /\ r.end_date.day \in {28, 29}

\* C6: leap-day isolation: on every calendar date other than Feb 29 the rule's
\* date range gives the same answer in a non-leap and in a leap calendar; a rule
\* that starts on Mar 1 never covers Feb 29, and a rule that ends at the end of
\* February never covers Mar 1 in either calendar.
C6_LeapDayIsolation ==
    /\ ret.op = "does_rule_apply_doy" =>
        LET d == DateFromDoy(ret.doy, FALSE)
        IN  /\ ret.result = does_rule_apply_doy_leap_year(
                                rule, Doy(Date(d.month, d.day, TRUE)))
            /\ (EndsEndOfFebruary(rule) /\ d.month = 3 /\ d.day = 1)
                  => ~ret.result
    /\ ret.op = "does_rule_apply_doy_leap_year" =>
        LET d == DateFromDoy(ret.doy, TRUE)
        IN  /\ ~(d.month = 2 /\ d.day = 29)
                  => ret.result = does_rule_apply_doy(
                                      rule, Doy(Date(d.month, d.day, FALSE)))
            /\ (rule.start_date.month = 3 /\ rule.start_date.day = 1
                    /\ d.month = 2 /\ d.day = 29) => ~ret.result
            /\ (EndsEndOfFebruary(rule) /\ d.month = 3 /\ d.day = 1)
                  => ~ret.result

(***************************************************************************)
(* ScheduleRuleset: the rule list and values()                             *)
(***************************************************************************)
\* the most rules a ruleset is given
MaxRules == 2

\* values() and to_idf() return without touching the ruleset, so the call that
\* follows one of them starts from the state the query was made in; the model
\* makes every call from such a state
AtRest == ret.op \notin {"values", "to_idf", "average_schedules"}

\* ScheduleRuleset('Sched', default_day_schedule): no rules, no design days
Init ==
    /\ name = "Sched"
    /\ schedule_type_limit = None
    /\ locked = FALSE
    /\ other = NoOther
    /\ schedule_rules = << >>
    /\ default_day_schedule = "Dflt"
    /\ summer_designday_schedule = None
    /\ winter_designday_schedule = None
    /\ rule = NoRule
    /\ InitEnergy
    /\ ret = [op |-> "init"]

\* ScheduleRuleset.add_rule(r): list.insert does not go through __setattr__, so
\* _locked is not looked at
AddRuleMutAppend(r) ==
    /\ AtRest
    /\ Len(schedule_rules) < MaxRules
    /\ schedule_rules' = Append(schedule_rules, r)
    /\ ret' = [op |-> "add_rule", raised |-> None, rule |-> r]
    /\ UNCHANGED <<default_day_schedule, summer_designday_schedule,
                   winter_designday_schedule, name, schedule_type_limit,
                   locked, other, rule, energy_vars>>
AddRule(r) ==
    /\ AtRest
    /\ Len(schedule_rules) < MaxRules
    /\ schedule_rules' = PyInsert(schedule_rules, 0, r)
    /\ ret' = [op |-> "add_rule", raised |-> None, rule |-> r]
    /\ UNCHANGED <<default_day_schedule, summer_designday_schedule,
                   winter_designday_schedule, name, schedule_type_limit,
                   locked, other, rule, energy_vars>>

\* ScheduleRuleset.remove_rule(rule_index): the rule's schedule_day._parent is
\* assigned before the rule is deleted, and the day of a locked rule is locked
RemoveRule(rule_index) ==
    /\ AtRest
    /\ IF ~PyIndexOk(schedule_rules, rule_index)
       THEN /\ schedule_rules' = schedule_rules
            /\ ret' = [op |-> "remove_rule", raised |-> "IndexError",
                       rule_index |-> rule_index]
       ELSE LET raised ==
                    SetAttrRaises(
                        schedule_rules[PyPos(schedule_rules, rule_index)]._locked)
            IN  IF raised # None
                THEN /\ schedule_rules' = schedule_rules
                     /\ ret' = [op |-> "remove_rule", raised |-> raised,
                                rule_index |-> rule_index]
                ELSE /\ schedule_rules' = PyDel(schedule_rules, rule_index)
                     /\ ret' = [op |-> "remove_rule", raised |-> None,
                                rule_index |-> rule_index]
    /\ UNCHANGED <<default_day_schedule, summer_designday_schedule,
                   winter_designday_schedule, name, schedule_type_limit,
                   locked, other, rule, energy_vars>>

\* ScheduleRuleset.reorder_rule(rule_index, new_index)
ReorderRule(rule_index, new_index) ==
    /\ AtRest
    /\ IF PyIndexOk(schedule_rules, rule_index)
       THEN /\ schedule_rules' =
                  PyInsert(PyDel(schedule_rules, rule_index), new_index,
                           schedule_rules[PyPos(schedule_rules, rule_index)])
            /\ ret' = [op |-> "reorder_rule", raised |-> None,
                       rule_index |-> rule_index, new_index |-> new_index]
       ELSE /\ schedule_rules' = schedule_rules
            /\ ret' = [op |-> "reorder_rule", raised |-> "IndexError",
                       rule_index |-> rule_index, new_index |-> new_index]
    /\ UNCHANGED <<default_day_schedule, summer_designday_schedule,
                   winter_designday_schedule, name, schedule_type_limit,
                   locked, other, rule, energy_vars>>

\* ScheduleRuleset.values(timestep, start_date, end_date, start_dow, holidays,
\* leap_year); holidays=None is the empty set
Values(timestep, start_date, end_date, start_dow, holidays, leap_year) ==
    LET raised == ValuesRaises(start_date, end_date, holidays, leap_year)
        sch_day_vals == SchDayVals(schedule_rules, default_day_schedule, timestep)
        sd == InYear(start_date, leap_year)
        ed == InYear(end_date, leap_year)
        hol_doy == {Doy(InYear(hol, leap_year)) : hol \in holidays}
        dow == _dow_text_to_int(start_dow)
    IN  /\ AtRest
        /\ ret' = IF raised # None
                  THEN [op |-> "values", raised |-> raised]
                  ELSE [op |-> "values", raised |-> None,
                        timestep |-> timestep, start_date |-> sd, end_date |-> ed,
                        start_dow |-> start_dow, hol_doy |-> hol_doy,
                        leap_year |-> leap_year,
                        args |-> [start_date |-> start_date,
                                  end_date |-> end_date, holidays |-> holidays],
                        values |->
                            IF ~leap_year
                            THEN _get_sch_values(schedule_rules, sch_day_vals, dow,
                                                 sd, ed, hol_doy)
                            ELSE _get_sch_values_leap_year(schedule_rules,
                                     sch_day_vals, dow, sd, ed, hol_doy)]
        /\ UNCHANGED <<ruleset_vars, rule, energy_vars>>

\* inputs
DayNames == {"A", "B"}
StartDows == {"sunday", "monday", "tuesday", "wednesday", "thursday", "friday",
              "saturday"}
Timesteps == {1, 4}
ValuesStartDates == {Date(2, 22, FALSE), Date(2, 29, TRUE)}
ValuesEndDates == {Date(1, 1, TRUE), Date(2, 22, FALSE), Date(3, 3, FALSE)}
HolidayLists == {{}, {Date(2, 23, FALSE), Date(3, 1, FALSE), Date(3, 2, TRUE)}}

\* the rules a ruleset is given: ScheduleRule(...) for the arguments that
\* __init__ accepts
AddedRules ==
    {ScheduleRule(day, Weekdays, hol, sd, NoDate) :
        day \in DayNames, hol \in BOOLEAN, sd \in {NoDate, Date(3, 1, FALSE)}}

Next ==
    \/ \E r \in AddedRules : AddRule(r)
    \/ \E i \in -1..MaxRules : RemoveRule(i)
    \/ \E i \in -1..MaxRules, j \in 0..MaxRules : ReorderRule(i, j)
    \/ \E sd \in ValuesStartDates, ed \in ValuesEndDates, dow \in StartDows,
          hols \in HolidayLists, leap \in BOOLEAN :
            Values(1, sd, ed, dow, hols, leap)
    \* values(timestep, leap_year=leap_year): the whole year, from a Sunday
    \/ \E ts \in Timesteps, leap \in BOOLEAN :
            Values(ts, Date(1, 1, FALSE), Date(12, 31, FALSE), "sunday", {}, leap)

Spec == Init /\ [][Next]_vars

(***************************************************************************)
(* ScheduleRuleset.to_idf(): the Schedule:Year and its Schedule:Week:Daily *)
(***************************************************************************)
\* ScheduleDay.is_constant: the day built by from_constant_value has one value
DayIsConstant(schedule_day) == schedule_day = "Dflt"

\* ScheduleRuleset.is_constant
is_constant ==
    /\ DayIsConstant(default_day_schedule)
    /\ schedule_rules = << >>
    /\ summer_designday_schedule = None
    /\ winter_designday_schedule = None

\* ScheduleRuleset.is_single_week
is_single_week ==
    \/ schedule_rules = << >>
    \/ \A k \in 1..Len(schedule_rules) :
          schedule_rules[k].start_doy = 1 /\ schedule_rules[k].end_doy = 365

\* range(len(self))
AllRuleIndices == [k \in 1..Len(schedule_rules) |-> k - 1]

\* rules_on_doy: tuple(i for i, rule in enumerate(self._schedule_rules)
\*                     if rule._start_doy <= doy <= rule._end_doy)
RulesOnDoy(doy) ==
    SelectSeq(AllRuleIndices,
              LAMBDA i : /\ schedule_rules[i + 1].start_doy <= doy
                         /\ doy <= schedule_rules[i + 1].end_doy)

\* for i in rule_indices: if self._schedule_rules[i].week_apply_tuple[dow]: the
\* day of the first such rule, else (no break) the default day
RECURSIVE FirstDayOfWeekRule(_, _, _)
FirstDayOfWeekRule(rule_indices, k, dow) ==
    IF k > Len(rule_indices) THEN default_day_schedule
    ELSE IF PyIndex(week_apply_tuple(schedule_rules[rule_indices[k] + 1]), dow)
         THEN schedule_rules[rule_indices[k] + 1].schedule_day
         ELSE FirstDayOfWeekRule(rule_indices, k + 1, dow)

\* for i, rule in enumerate(self._schedule_rules): if rule.apply_holiday: the
\* day of the first such rule, else the default day
RECURSIVE FirstHolidayDay(_)
FirstHolidayDay(i) ==
    IF i >= Len(schedule_rules) THEN default_day_schedule
    ELSE IF schedule_rules[i + 1].apply_holiday
         THEN schedule_rules[i + 1].schedule_day
         ELSE FirstHolidayDay(i + 1)

\* ScheduleRuleset._get_week_list: the day names of Sunday .. Saturday, Holiday
_get_week_list(rule_indices) ==
    <<FirstDayOfWeekRule(rule_indices, 1, 0), FirstDayOfWeekRule(rule_indices, 1, 1),
      FirstDayOfWeekRule(rule_indices, 1, 2), FirstDayOfWeekRule(rule_indices, 1, 3),
      FirstDayOfWeekRule(rule_indices, 1, 4), FirstDayOfWeekRule(rule_indices, 1, 5),
      FirstDayOfWeekRule(rule_indices, 1, 6), FirstHolidayDay(0)>>

\* ScheduleRuleset._get_extra_week_fields raises AttributeError (None has no
\* name) when a design day is None
ExtraWeekFieldsRaise ==
    summer_designday_schedule = None \/ winter_designday_schedule = None

\* ScheduleRuleset._get_extra_week_fields
_get_extra_week_fields ==
    <<summer_designday_schedule, winter_designday_schedule,
      default_day_schedule, default_day_schedule>>

\* _idf_week_schedule_from_week_list / _idf_week_schedule_from_rule_indices:
\* the fields of Schedule:Week:Daily; week_index stands for the name
\* '<name>_Week <week_index>'
WeekSchedule(week_list, week_index) ==
    [name |-> week_index, days |-> week_list, extra |-> _get_extra_week_fields]

\* the orders in which list(set(week_tuples)) can list the week tuples
ListsOfSet(S) ==
    {order \in [1..Cardinality(S) -> S] :
        \A a, b \in 1..Cardinality(S) : order[a] = order[b] => a = b}

\* unique_week_tuples.index(week_list)
IndexIn(order, x) == CHOOSE k \in 1..Len(order) : order[k] = x

RECURSIVE SortedSeq(_)
SortedSeq(S) ==
    IF S = {} THEN << >>
    ELSE LET least == CHOOSE x \in S : \A y \in S : x <= y
         IN  <<least>> \o SortedSeq(S \ {least})

\* week_tuples: the week list of every rule set of unique_rule_sets
RECURSIVE WeekTuples(_)
WeekTuples(unique_rule_sets) ==
    IF unique_rule_sets = {} THEN << >>
    ELSE LET rule_set == CHOOSE rs \in unique_rule_sets : TRUE
         IN  (rule_set :> _get_week_list(rule_set))
             @@ WeekTuples(unique_rule_sets \ {rule_set})

\* rule_set_map: the week schedule (its index in unique_week_tuples) of every
\* rule set
RECURSIVE RuleSetMap(_, _, _)
RuleSetMap(unique_rule_sets, week_tuples, unique_week_tuples) ==
    IF unique_rule_sets = {} THEN << >>
    ELSE LET rule_set == CHOOSE rs \in unique_rule_sets : TRUE
         IN  (rule_set :> IndexIn(unique_week_tuples, week_tuples[rule_set]))
             @@ RuleSetMap(unique_rule_sets \ {rule_set}, week_tuples,
                           unique_week_tuples)

\* unique_week_tuples = list(set(week_tuples)): the distinct week lists, in any
\* of the orders a set can be listed in
UniqueWeekTuplesMutNoDedup(unique_rule_sets, week_tuples) ==
    {[k \in 1..Len(order) |-> week_tuples[order[k]]] :
        order \in ListsOfSet(unique_rule_sets)}
UniqueWeekTuples(unique_rule_sets, week_tuples) ==
    ListsOfSet({week_tuples[rule_set] : rule_set \in unique_rule_sets})

\* the days on which the loop over the 365 days finds week_sched != prev_week_sched:
\* day 1 and every day whose week schedule differs from that of the day before
WeekSchedChanges(rule_set_map) ==
    SortedSeq({doy \in 1..365 :
                  \/ doy = 1
                  \/ rule_set_map[RulesOnDoy(doy)]
                         # rule_set_map[RulesOnDoy(doy - 1)]})

\* yr_wk_s_names: the week schedule appended on every change
YrWkSNames(rule_set_map) ==
    LET changes == WeekSchedChanges(rule_set_map)
    IN  [k \in 1..Len(changes) |-> rule_set_map[RulesOnDoy(changes[k])]]

\* yr_wk_dt_range: a range opens on every change and is closed with the day
\* before the next change, the last one with Date(12, 31)
YrWkDtRangeMutEndOnChange(rule_set_map) ==
    LET changes == WeekSchedChanges(rule_set_map)
    IN  [k \in 1..Len(changes) |->
            <<IF changes[k] = 1 THEN Date(1, 1, FALSE)
              ELSE DateFromDoy(changes[k], FALSE),
              IF k = Len(changes) THEN Date(12, 31, FALSE)
              ELSE DateFromDoy(changes[k + 1], FALSE)>>]
YrWkDtRange(rule_set_map) ==
    LET changes == WeekSchedChanges(rule_set_map)
    IN  [k \in 1..Len(changes) |->
            <<IF changes[k] = 1 THEN Date(1, 1, FALSE)
              ELSE DateFromDoy(changes[k], FALSE),
              IF k = Len(changes) THEN Date(12, 31, FALSE)
              ELSE DateFromDoy(changes[k + 1] - 1, FALSE)>>]

\* the fields of Schedule:Year after the name and the type limit: for every
\* (wk_sch_name, dt_range) of zip(yr_wk_s_names, yr_wk_dt_range) the name, the
\* start month and day, the end month and day
YearFields(yr_wk_s_names, yr_wk_dt_range) ==
    LET count == IF Len(yr_wk_s_names) < Len(yr_wk_dt_range)
                 THEN Len(yr_wk_s_names) ELSE Len(yr_wk_dt_range)
    IN  [k \in 1..count |->
            [week |-> yr_wk_s_names[k],
             start_month |-> yr_wk_dt_range[k][1].month,
             start_day |-> yr_wk_dt_range[k][1].day,
             end_month |-> yr_wk_dt_range[k][2].month,
             end_day |-> yr_wk_dt_range[k][2].day]]

\* ScheduleRuleset.to_idf()
ToIdf ==
    LET unique_rule_sets == {RulesOnDoy(doy) : doy \in 1..365}
        week_tuples == WeekTuples(unique_rule_sets)
    IN  /\ AtRest
        /\ IF is_constant
           THEN ret' = [op |-> "to_idf", raised |-> None,
                        year_schedule |-> [type |-> "Schedule:Constant",
                                           value |-> default_day_schedule],
                        week_schedules |-> None]
           ELSE IF ExtraWeekFieldsRaise
           THEN ret' = [op |-> "to_idf", raised |-> "AttributeError"]
           ELSE IF is_single_week
           THEN ret' = [op |-> "to_idf", raised |-> None,
                        year_schedule |->
                            [type |-> "Schedule:Year",
                             yr_wk_s_names |-> <<1>>,
                             yr_wk_dt_range |->
                                 <<<<Date(1, 1, FALSE), Date(12, 31, FALSE)>>>>,
                             fields |->
                                 YearFields(<<1>>,
                                     <<<<Date(1, 1, FALSE), Date(12, 31, FALSE)>>>>)],
                        week_schedules |->
                            <<WeekSchedule(_get_week_list(AllRuleIndices), 1)>>]
           ELSE \E unique_week_tuples \in
                      UniqueWeekTuples(unique_rule_sets, week_tuples) :
                  LET rule_set_map == RuleSetMap(unique_rule_sets, week_tuples,
                                                 unique_week_tuples)
                  IN  ret' = [op |-> "to_idf", raised |-> None,
                              year_schedule |->
                                  [type |-> "Schedule:Year",
                                   yr_wk_s_names |-> YrWkSNames(rule_set_map),
                                   yr_wk_dt_range |-> YrWkDtRange(rule_set_map),
                                   fields |->
                                       YearFields(YrWkSNames(rule_set_map),
                                                  YrWkDtRange(rule_set_map))],
                              week_schedules |->
                                  [i \in 1..Len(unique_week_tuples) |->
                                      WeekSchedule(unique_week_tuples[i], i)]]
        /\ UNCHANGED <<ruleset_vars, rule, energy_vars>>

\* ScheduleRuleset('Sched', default_day_schedule, None, None,
\*                 summer_designday_schedule, winter_designday_schedule)
InitIdf ==
    /\ name = "Sched"
    /\ schedule_type_limit = None
    /\ locked = FALSE
    /\ other = NoOther
    /\ schedule_rules = << >>
    /\ default_day_schedule \in {"Dflt", "Occ"}
    /\ summer_designday_schedule \in {None, "Smr"}
    /\ winter_designday_schedule \in {None, "Wntr"}
    /\ rule = NoRule
    /\ InitEnergy
    /\ ret = [op |-> "init"]

\* the (start_date, end_date) of the rules added before to_idf(): the whole
\* year, from Mar 1 on, from Mar 1 to Aug 31
IdfRuleRanges ==
    {<<NoDate, NoDate>>, <<Date(3, 1, FALSE), NoDate>>,
     <<Date(3, 1, FALSE), Date(8, 31, FALSE)>>}

IdfAddedRules ==
    {ScheduleRule(day, Weekdays, hol, range[1], range[2]) :
        day \in DayNames, hol \in BOOLEAN, range \in IdfRuleRanges}

NextIdf ==
    \/ \E r \in IdfAddedRules : AddRule(r)
    \/ ToIdf

SpecIdf == InitIdf /\ [][NextIdf]_vars

(***************************************************************************)
(* lock(), unlock() and the assignment of attributes                       *)
(***************************************************************************)
\* rule.lock() / rule.unlock() of every rule of a list
LockRules(rules, value) == [k \in 1..Len(rules) |-> [rules[k] EXCEPT !._locked = value]]

\* ScheduleRuleset.lock(): the days and the rules of the list are locked as well
Lock ==
    /\ AtRest
    /\ locked' = TRUE
    /\ schedule_rules' = LockRules(schedule_rules, TRUE)
    /\ ret' = [op |-> "lock", raised |-> None]
    /\ UNCHANGED <<default_day_schedule, summer_designday_schedule,
                   winter_designday_schedule, name, schedule_type_limit,
                   other, rule, energy_vars>>

\* ScheduleRuleset.unlock()
Unlock ==
    /\ AtRest
    /\ locked' = FALSE
    /\ schedule_rules' = LockRules(schedule_rules, FALSE)
    /\ ret' = [op |-> "unlock", raised |-> None]
    /\ UNCHANGED <<default_day_schedule, summer_designday_schedule,
                   winter_designday_schedule, name, schedule_type_limit,
                   other, rule, energy_vars>>

\* schedule.name = value
SetName(value) ==
    /\ AtRest
    /\ name' = IF SetAttrRaises(locked) = None THEN value ELSE name
    /\ ret' = [op |-> "set_name", raised |-> SetAttrRaises(locked)]
    /\ UNCHANGED <<schedule_rules, default_day_schedule,
                   summer_designday_schedule, winter_designday_schedule,
                   schedule_type_limit, locked, other, rule, energy_vars>>

\* schedule.default_day_schedule = value
SetDefaultDaySchedule(value) ==
    /\ AtRest
    /\ default_day_schedule' =
           IF SetAttrRaises(locked) = None THEN value ELSE default_day_schedule
    /\ ret' = [op |-> "set_default_day_schedule", raised |-> SetAttrRaises(locked)]
    /\ UNCHANGED <<schedule_rules, summer_designday_schedule,
                   winter_designday_schedule, name, schedule_type_limit,
                   locked, other, rule, energy_vars>>

\* schedule.schedule_rules = value (None gives the empty list)
SetScheduleRules(value) ==
    /\ AtRest
    /\ schedule_rules' =
           IF SetAttrRaises(locked) = None THEN value ELSE schedule_rules
    /\ ret' = [op |-> "set_schedule_rules", raised |-> SetAttrRaises(locked)]
    /\ UNCHANGED <<default_day_schedule, summer_designday_schedule,
                   winter_designday_schedule, name, schedule_type_limit,
                   locked, other, rule, energy_vars>>

\* schedule.schedule_type_limit = value
SetScheduleTypeLimit(value) ==
    /\ AtRest
    /\ schedule_type_limit' =
           IF SetAttrRaises(locked) = None THEN value ELSE schedule_type_limit
    /\ ret' = [op |-> "set_schedule_type_limit", raised |-> SetAttrRaises(locked)]
    /\ UNCHANGED <<schedule_rules, default_day_schedule,
                   summer_designday_schedule, winter_designday_schedule,
                   name, locked, other, rule, energy_vars>>

\* schedule.summer_designday_schedule = value
SetSummerDesigndaySchedule(value) ==
    /\ AtRest
    /\ summer_designday_schedule' =
           IF SetAttrRaises(locked) = None THEN value
           ELSE summer_designday_schedule
    /\ ret' = [op |-> "set_summer_designday_schedule",
               raised |-> SetAttrRaises(locked)]
    /\ UNCHANGED <<schedule_rules, default_day_schedule,
                   winter_designday_schedule, name, schedule_type_limit,
                   locked, other, rule, energy_vars>>

\* schedule.winter_designday_schedule = value
SetWinterDesigndaySchedule(value) ==
    /\ AtRest
    /\ winter_designday_schedule' =
           IF SetAttrRaises(locked) = None THEN value
           ELSE winter_designday_schedule
    /\ ret' = [op |-> "set_winter_designday_schedule",
               raised |-> SetAttrRaises(locked)]
    /\ UNCHANGED <<schedule_rules, default_day_schedule,
                   summer_designday_schedule, name, schedule_type_limit,
                   locked, other, rule, energy_vars>>

\* the rules handed to add_rule and to the schedule_rules setter
LockAddedRules ==
    {ScheduleRule(day, Weekdays, FALSE, NoDate, NoDate) : day \in DayNames}

NextLock ==
    \/ Lock
    \/ Unlock
    \/ \E r \in LockAddedRules : AddRule(r)
    \/ \E i \in -1..MaxRules : RemoveRule(i)
    \/ \E i \in 0..MaxRules, j \in 0..1 : ReorderRule(i, j)
    \/ \E value \in {"Sched", "Office"} : SetName(value)
    \/ \E value \in {"Dflt", "Occ"} : SetDefaultDaySchedule(value)
    \/ \E r \in LockAddedRules : SetScheduleRules(<<r>>)
    \/ SetScheduleRules(<< >>)
    \/ \E value \in {None, "Fractional"} : SetScheduleTypeLimit(value)
    \/ \E value \in {None, "Smr"} : SetSummerDesigndaySchedule(value)
    \/ \E value \in {None, "Wntr"} : SetWinterDesigndaySchedule(value)

SpecLock == Init /\ [][NextLock]_vars

(***************************************************************************)
(* duplicate(), __eq__ and __hash__: two rulesets and the objects they hold *)
(***************************************************************************)
\* the ruleset itself as a record of the shape of other; day_ids are the
\* identities of its default, summer and winter day objects
Self ==
    [name |-> name, default_day_schedule |-> default_day_schedule,
     schedule_rules |-> schedule_rules,
     schedule_type_limit |-> schedule_type_limit,
     summer_designday_schedule |-> summer_designday_schedule,
     winter_designday_schedule |-> winter_designday_schedule,
     day_ids |-> [default |-> 1, summer |-> 2, winter |-> 3],
     locked |-> locked]

\* ScheduleRule.__key: the hashes of the day and of the dates stand for the day
\* and the dates; _start_doy, _end_doy and _locked are not part of it
RuleKey(r) ==
    <<r.schedule_day, r.apply_sunday, r.apply_monday, r.apply_tuesday,
      r.apply_wednesday, r.apply_thursday, r.apply_friday, r.apply_saturday,
      r.apply_holiday, r.start_date, r.end_date>>

\* ScheduleRuleset.__key
RulesetKeyMutAnyOrder(rs) ==
    <<rs.name, rs.default_day_schedule, rs.summer_designday_schedule,
      rs.winter_designday_schedule, rs.schedule_type_limit,
      {RuleKey(rs.schedule_rules[k]) : k \in 1..Len(rs.schedule_rules)}>>
RulesetKey(rs) ==
    <<rs.name, rs.default_day_schedule, rs.summer_designday_schedule,
      rs.winter_designday_schedule, rs.schedule_type_limit>>
    \o [k \in 1..Len(rs.schedule_rules) |-> RuleKey(rs.schedule_rules[k])]

\* the identity of the k-th object made by a duplicate() call
FreshId(k) == 100 + k

\* ScheduleRule.__copy__: ScheduleRule(self.schedule_day.duplicate(), ...,
\* self.start_date, self.end_date), a new rule with a new day
RuleCopy(r, fresh) ==
    [ScheduleRule(r.schedule_day, week_apply_tuple(r), r.apply_holiday,
                  r.start_date, r.end_date)
        EXCEPT !.id = fresh, !.day_id = fresh]

\* [rule.duplicate() for rule in self._schedule_rules]
RulesCopy(rules) == [k \in 1..Len(rules) |-> RuleCopy(rules[k], FreshId(k))]

\* an assignment to a rule object shows in every list that holds the object
StoreRule(rules, r) ==
    [k \in 1..Len(rules) |-> IF rules[k].id = r.id THEN r ELSE rules[k]]

\* other = schedule.duplicate(): ScheduleRule.__init__ raises for a rule whose
\* start_date is not before its end_date
Duplicate ==
    /\ AtRest
    /\ IF \E k \in 1..Len(schedule_rules) :
             ~ScheduleRuleInitOk(schedule_rules[k].start_date,
                                 schedule_rules[k].end_date)
       THEN /\ other' = other
            /\ ret' = [op |-> "duplicate", raised |-> "AssertionError"]
       ELSE /\ other' = [Self EXCEPT
                            !.schedule_rules = RulesCopy(schedule_rules),
                            !.day_ids = [default |-> FreshId(-1),
                                         summer |-> FreshId(-2),
                                         winter |-> FreshId(-3)],
                            !.locked = FALSE]
            /\ ret' = [op |-> "duplicate", raised |-> None]
    /\ UNCHANGED <<schedule_rules, default_day_schedule,
                   summer_designday_schedule, winter_designday_schedule,
                   name, schedule_type_limit, locked, rule, energy_vars>>

\* other.add_rule(r)
OtherAddRule(r) ==
    /\ AtRest /\ other # NoOther
    /\ Len(other.schedule_rules) < MaxRules
    /\ other' = [other EXCEPT
                    !.schedule_rules = PyInsert(other.schedule_rules, 0, r)]
    /\ ret' = [op |-> "other.add_rule", raised |-> None, rule |-> r]
    /\ UNCHANGED <<schedule_rules, default_day_schedule,
                   summer_designday_schedule, winter_designday_schedule,
                   name, schedule_type_limit, locked, rule, energy_vars>>

\* other.remove_rule(rule_index)
OtherRemoveRule(rule_index) ==
    /\ AtRest /\ other # NoOther
    /\ IF ~PyIndexOk(other.schedule_rules, rule_index)
       THEN /\ other' = other
            /\ ret' = [op |-> "other.remove_rule", raised |-> "IndexError"]
       ELSE LET raised ==
                    SetAttrRaises(
                        other.schedule_rules[
                            PyPos(other.schedule_rules, rule_index)]._locked)
            IN  IF raised # None
                THEN /\ other' = other
                     /\ ret' = [op |-> "other.remove_rule", raised |-> raised]
                ELSE /\ other' = [other EXCEPT !.schedule_rules =
                                     PyDel(other.schedule_rules, rule_index)]
                     /\ ret' = [op |-> "other.remove_rule", raised |-> None]
    /\ UNCHANGED <<schedule_rules, default_day_schedule,
                   summer_designday_schedule, winter_designday_schedule,
                   name, schedule_type_limit, locked, rule, energy_vars>>

\* other.reorder_rule(rule_index, new_index)
OtherReorderRule(rule_index, new_index) ==
    /\ AtRest /\ other # NoOther
    /\ IF PyIndexOk(other.schedule_rules, rule_index)
       THEN /\ other' = [other EXCEPT !.schedule_rules =
                  PyInsert(PyDel(other.schedule_rules, rule_index), new_index,
                           other.schedule_rules[
                               PyPos(other.schedule_rules, rule_index)])]
            /\ ret' = [op |-> "other.reorder_rule", raised |-> None]
       ELSE /\ other' = other
            /\ ret' = [op |-> "other.reorder_rule", raised |-> "IndexError"]
    /\ UNCHANGED <<schedule_rules, default_day_schedule,
                   summer_designday_schedule, winter_designday_schedule,
                   name, schedule_type_limit, locked, rule, energy_vars>>

\* the rules of the ruleset an assignment is made through
RulesOf(through) ==
    IF through = "other" THEN other.schedule_rules ELSE schedule_rules

\* the rule object r as an assignment left it: it is stored in both rulesets
AssignRule(through, op, result) ==
    /\ schedule_rules' = StoreRule(schedule_rules, result.rule)
    /\ other' = IF other = NoOther THEN NoOther
                ELSE [other EXCEPT !.schedule_rules =
                         StoreRule(other.schedule_rules, result.rule)]
    /\ ret' = [op |-> IF through = "other" THEN "other[k]." \o op ELSE "[k]." \o op,
               raised |-> result.raised]
    /\ UNCHANGED <<default_day_schedule, summer_designday_schedule,
                   winter_designday_schedule, name, schedule_type_limit,
                   locked, rule, energy_vars>>

\* schedule[k].start_date = value, or other[k].start_date = value
SetRuleStartDate(through, k, value) ==
    /\ AtRest /\ (through = "other" => other # NoOther)
    /\ k < Len(RulesOf(through))
    /\ AssignRule(through, "start_date",
                  StartDateSetter(RulesOf(through)[k + 1], value))

\* schedule[k].end_date = value, or other[k].end_date = value
SetRuleEndDate(through, k, value) ==
    /\ AtRest /\ (through = "other" => other # NoOther)
    /\ k < Len(RulesOf(through))
    /\ AssignRule(through, "end_date",
                  EndDateSetter(RulesOf(through)[k + 1], value))

\* schedule[k].apply_holiday = value, or other[k].apply_holiday = value
SetRuleApplyHoliday(through, k, value) ==
    /\ AtRest /\ (through = "other" => other # NoOther)
    /\ k < Len(RulesOf(through))
    /\ AssignRule(through, "apply_holiday",
                  ApplyHolidaySetter(RulesOf(through)[k + 1], value))

\* schedule == other and hash(schedule) == hash(other)
Equals ==
    /\ AtRest /\ other # NoOther
    /\ ret' = [op |-> "eq", raised |-> None,
               result |-> RulesetKey(Self) = RulesetKey(other),
               hash_equal |-> RulesetKey(Self) = RulesetKey(other)]
    /\ UNCHANGED <<ruleset_vars, rule, energy_vars>>

\* the rule objects handed to add_rule of the ruleset and of its duplicate
RuleObject(day, apply_holiday, id) ==
    [ScheduleRule(day, Weekdays, apply_holiday, Date(3, 1, FALSE),
                  Date(8, 31, FALSE))
        EXCEPT !.id = id, !.day_id = id]
DupAddedRules == {RuleObject("A", FALSE, 11)}
OtherAddedRules == {RuleObject("B", FALSE, 21)}

NextDup ==
    \/ \E r \in DupAddedRules : AddRule(r)
    \/ RemoveRule(0)
    \/ ReorderRule(1, 0)
    \/ Duplicate
    \/ \E r \in OtherAddedRules : OtherAddRule(r)
    \/ OtherRemoveRule(0)
    \/ OtherReorderRule(1, 0)
    \/ \E through \in {"self", "other"} :
          SetRuleStartDate(through, 0, Date(8, 31, FALSE))
    \/ \E through \in {"self", "other"} :
          SetRuleEndDate(through, 0, Date(12, 31, FALSE))
    \/ \E through \in {"self", "other"} :
          SetRuleApplyHoliday(through, 0, TRUE)

SpecDup == Init /\ [][NextDup]_vars

\* the rules two rulesets are compared with
EqAddedRules == {RuleObject("A", FALSE, 11), RuleObject("B", TRUE, 12)}

NextEq ==
    \/ \E r \in EqAddedRules : AddRule(r)
    \/ ReorderRule(1, 0)
    \/ SetName("Office")
    \/ SetDefaultDaySchedule("Occ")
    \/ SetScheduleTypeLimit("Fractional")
    \/ SetSummerDesigndaySchedule("Smr")
    \/ Duplicate
    \/ \E r \in EqAddedRules : OtherAddRule(r)
    \/ OtherRemoveRule(0)
    \/ OtherReorderRule(1, 0)
    \/ Equals

SpecEq == Init /\ [][NextEq]_vars

(***************************************************************************)
(* Parts of rule.py and of to_rules that several constructors use          *)
(***************************************************************************)
\* ScheduleRule.apply_day_by_dow(dow): 1 is Sunday .. 7 Saturday, 8 Holiday
apply_day_by_dow(r, dow) ==
    CASE dow = 1 -> [r EXCEPT !.apply_sunday = TRUE]
      [] dow = 2 -> [r EXCEPT !.apply_monday = TRUE]
      [] dow = 3 -> [r EXCEPT !.apply_tuesday = TRUE]
      [] dow = 4 -> [r EXCEPT !.apply_wednesday = TRUE]
      [] dow = 5 -> [r EXCEPT !.apply_thursday = TRUE]
      [] dow = 6 -> [r EXCEPT !.apply_friday = TRUE]
      [] dow = 7 -> [r EXCEPT !.apply_saturday = TRUE]
      [] dow = 8 -> [r EXCEPT !.apply_holiday = TRUE]
      [] OTHER -> r

NoDays == <<FALSE, FALSE, FALSE, FALSE, FALSE, FALSE, FALSE>>

\* the test of to_rules for a rule that has no overlap with the period
ToRulesNoOverlap(r, st_doy, end_doy) ==
    \/ r.start_doy < st_doy /\ r.end_doy < st_doy
    \/ r.start_doy > st_doy /\ r.end_doy > end_doy

\* new_rule of one turn of the first loop: rule.duplicate(), then the
\* start_date and end_date setters where the rule reaches beyond the period
ToRulesNewRule(r, k, start_date, end_date, st_doy, end_doy) ==
    LET copy == RuleCopy(r, FreshId(k))
        started == IF r.start_doy < st_doy THEN StartDateSetter(copy, start_date)
                   ELSE [raised |-> None, rule |-> copy]
    IN  IF started.raised # None THEN started
        ELSE IF r.end_doy > end_doy THEN EndDateSetter(started.rule, end_date)
        ELSE started

\* the first loop from the k-th rule on: what it raises and the rules list
RECURSIVE ToRulesKept(_, _, _, _, _)
ToRulesKept(rules, k, new_rules, start_date, end_date) ==
    LET st_doy == _doy_non_leap_year(start_date)
        end_doy == _doy_non_leap_year(end_date)
        new_rule == ToRulesNewRule(rules[k], k, start_date, end_date,
                                   st_doy, end_doy)
    IN  IF k > Len(rules) THEN [raised |-> None, rules |-> new_rules]
        ELSE IF ToRulesNoOverlap(rules[k], st_doy, end_doy)
        THEN ToRulesKept(rules, k + 1, new_rules, start_date, end_date)
        ELSE IF new_rule.raised # None
        THEN [raised |-> new_rule.raised, rules |-> new_rules]
        ELSE ToRulesKept(rules, k + 1, Append(new_rules, new_rule.rule),
                         start_date, end_date)

\* default_rule: the default day over the period, applied on the days of the
\* week on which no rule of rules applies, and on holidays if no rule does
ToRulesDefaultRule(rules, default, start_date, end_date) ==
    ScheduleRule(default,
                 [dow \in 1..7 |->
                     ~\E k \in 1..Len(rules) : week_apply_tuple(rules[k])[dow]],
                 ~\E k \in 1..Len(rules) : rules[k].apply_holiday,
                 start_date, end_date)

(***************************************************************************)
(* average_schedules(name, schedules, weights, timestep_resolution)        *)
(* A weight w stands for the float w / WeightOne; quarters are added and   *)
(* multiplied by floats without rounding, so sum(weights) == 1 is          *)
(* SumSeq(weights) = WeightOne.  The schedules averaged are single-week    *)
(* (every rule covers the whole year), the branch of _get_avg_week.        *)
(***************************************************************************)
WeightOne == 4

RECURSIVE SumSeq(_)
SumSeq(seq) == IF seq = << >> THEN 0 ELSE Head(seq) + SumSeq(Tail(seq))

\* the value a constant day profile has at every timestep
DayValue(schedule_day) ==
    CASE schedule_day = "A" -> 0
      [] schedule_day = "B" -> 4
      [] OTHER -> 2

\* the weights argument: None, or a list of weights
NoWeights == [is_none |-> TRUE, list |-> << >>]
Weights(list) == [is_none |-> FALSE, list |-> list]

\* weights is None: weight = 1 / len(schedules) for every schedule
EqualWeights(schedules) ==
    [k \in 1..Len(schedules) |-> WeightOne \div Len(schedules)]

\* what the check of the weights raises, or None: tuple_with_length asserts
\* the length, then assert sum(weights) == 1
WeightsRaiseMutAtMostOne(schedules, weights) ==
    IF weights.is_none THEN None
    ELSE IF Len(weights.list) # Len(schedules) THEN "AssertionError"
    ELSE IF ~(SumSeq(weights.list) <= WeightOne) THEN "AssertionError"
    ELSE None
WeightsRaise(schedules, weights) ==
    IF weights.is_none THEN None
    ELSE IF Len(weights.list) # Len(schedules) THEN "AssertionError"
    ELSE IF ~(SumSeq(weights.list) = WeightOne) THEN "AssertionError"
    ELSE None

\* _get_avg_week: the day of the first rule of rule_indices that applies on dow,
\* else the default day
RECURSIVE AvgDayOfWeek(_, _, _, _)
AvgDayOfWeek(sched, rule_indices, k, dow) ==
    IF k > Len(rule_indices) THEN sched.default_day_schedule
    ELSE IF PyIndex(week_apply_tuple(sched.schedule_rules[rule_indices[k] + 1]), dow)
         THEN sched.schedule_rules[rule_indices[k] + 1].schedule_day
         ELSE AvgDayOfWeek(sched, rule_indices, k + 1, dow)

\* _get_avg_week: the day of the first rule of rule_indices with apply_holiday,
\* else the default day
RECURSIVE AvgHolidayDay(_, _, _)
AvgHolidayDay(sched, rule_indices, k) ==
    IF k > Len(rule_indices) THEN sched.default_day_schedule
    ELSE IF sched.schedule_rules[rule_indices[k] + 1].apply_holiday
         THEN sched.schedule_rules[rule_indices[k] + 1].schedule_day
         ELSE AvgHolidayDay(sched, rule_indices, k + 1)

\* _get_avg_week: week_list of one schedule: Sunday .. Saturday, holiday,
\* summer design day, winter design day (the default day for a missing one)
AvgWeekList(sched, rule_indices) ==
    [dow \in 1..7 |-> AvgDayOfWeek(sched, rule_indices, 1, dow - 1)]
    \o <<AvgHolidayDay(sched, rule_indices, 1),
         IF sched.summer_designday_schedule = None
         THEN sched.default_day_schedule ELSE sched.summer_designday_schedule,
         IF sched.winter_designday_schedule = None
         THEN sched.default_day_schedule ELSE sched.winter_designday_schedule>>

\* _get_avg_week: sum([val * weights[i] for i, val in enumerate(values)]) for
\* each of the ten days of the week list (in units of 1 / WeightOne)
_get_avg_week(schedules, weights, rule_indices) ==
    [d \in 1..10 |->
        SumSeq([i \in 1..Len(schedules) |->
                   DayValue(AvgWeekList(schedules[i], rule_indices[i])[d])
                   * weights[i]])]

\* from_week_daily_values: the rules for Sunday .. Saturday and Holiday from
\* the i-th of all_vals on: a new rule for values not met before,
\* apply_day_by_dow on the rule of values met before. A day is known by its
\* value
RECURSIVE WeekDailyRules(_, _, _)
WeekDailyRules(all_vals, i, rules) ==
    IF i > 8 THEN rules
    ELSE IF \E k \in 1..Len(rules) : rules[k].schedule_day = all_vals[i]
    THEN WeekDailyRules(all_vals, i + 1,
             [rules EXCEPT ![CHOOSE k \in 1..Len(rules) :
                                 rules[k].schedule_day = all_vals[i]] =
                               apply_day_by_dow(@, i)])
    ELSE WeekDailyRules(all_vals, i + 1,
             Append(rules,
                    apply_day_by_dow(
                        ScheduleRule(all_vals[i], NoDays, FALSE, NoDate, NoDate),
                        i)))

\* ScheduleRuleset.from_week_daily_values(name, avg_mtx[0], .., avg_mtx[7],
\* timestep, type_limit, avg_mtx[8], avg_mtx[9]): the day of the first rule
\* is the default day, the other rules are the rules
from_week_daily_values(avg_mtx) ==
    LET rules == WeekDailyRules(avg_mtx, 1, << >>)
    IN  [default_day_schedule |-> rules[1].schedule_day,
         schedule_rules |-> Tail(rules),
         summer_designday_schedule |-> avg_mtx[9],
         winter_designday_schedule |-> avg_mtx[10]]

\* sched.is_single_week of a schedule of the list
SchedIsSingleWeek(sched) ==
    \/ sched.schedule_rules = << >>
    \/ \A k \in 1..Len(sched.schedule_rules) :
          sched.schedule_rules[k].start_doy = 1
          /\ sched.schedule_rules[k].end_doy = 365

\* rules_on_doy: for every schedule the indices of its rules whose range
\* holds doy
RulesEachDay(schedules, doy) ==
    [i \in 1..Len(schedules) |->
        SelectSeq([k \in 1..Len(schedules[i].schedule_rules) |-> k - 1],
                  LAMBDA k : /\ schedules[i].schedule_rules[k + 1].start_doy <= doy
                             /\ doy <= schedules[i].schedule_rules[k + 1].end_doy)]

\* the days on which week_rules != prev_week_rules
AvgWeekChanges(schedules) ==
    SortedSeq({doy \in 1..365 :
                  \/ doy = 1
                  \/ RulesEachDay(schedules, doy) # RulesEachDay(schedules, doy - 1)})

\* yr_wk_dt_range of average_schedules
AvgDtRange(changes) ==
    [k \in 1..Len(changes) |->
        <<IF changes[k] = 1 THEN Date(1, 1, FALSE)
          ELSE DateFromDoy(changes[k], FALSE),
          IF k = Len(changes) THEN Date(12, 31, FALSE)
          ELSE DateFromDoy(changes[k + 1] - 1, FALSE)>>]

\* wk_sch.to_rules(dt_range[0], dt_range[1]): what it raises and the rules
WeekToRules(wk_sch, start_date, end_date) ==
    LET kept == ToRulesKept(wk_sch.schedule_rules, 1, << >>, start_date, end_date)
    IN  IF kept.raised # None THEN [raised |-> kept.raised, rules |-> << >>]
        ELSE IF ~ScheduleRuleInitOk(start_date, end_date)
        THEN [raised |-> "AssertionError", rules |-> << >>]
        ELSE [raised |-> None,
              rules |-> Append(kept.rules,
                            ToRulesDefaultRule(kept.rules,
                                wk_sch.default_day_schedule, start_date,
                                end_date))]

\* final_rules: the rules of every week schedule of the year over its range
RECURSIVE FinalRules(_, _)
FinalRules(per_week, k) ==
    IF k > Len(per_week) THEN << >>
    ELSE per_week[k].rules \o FinalRules(per_week, k + 1)

\* the branch of average_schedules for schedules that are not all single-week
AverageYear(schedules, weights) ==
    LET changes == AvgWeekChanges(schedules)
        dt_range == AvgDtRange(changes)
        per_week == [k \in 1..Len(changes) |->
                        WeekToRules(
                            from_week_daily_values(
                                _get_avg_week(schedules, weights,
                                    RulesEachDay(schedules, changes[k]))),
                            dt_range[k][1], dt_range[k][2])]
        final_rules == FinalRules(per_week, 1)
        first_week == from_week_daily_values(
                          _get_avg_week(schedules, weights,
                              RulesEachDay(schedules, 1)))
    IN  IF \E k \in 1..Len(changes) : per_week[k].raised # None
        THEN [raised |-> "AssertionError"]
        ELSE [raised |-> None,
              schedule |->
                  [default_day_schedule |-> final_rules[1].schedule_day,
                   schedule_rules |-> Tail(final_rules),
                   summer_designday_schedule |->
                       first_week.summer_designday_schedule,
                   winter_designday_schedule |->
                       first_week.winter_designday_schedule]]

\* ScheduleRuleset.average_schedules, a static method: result are the values
\* of the average week (of the first week of the year in the second branch),
\* schedule is the ScheduleRuleset returned
AverageSchedules(schedules, weights) ==
    LET used == IF weights.is_none THEN EqualWeights(schedules)
                ELSE weights.list
        rule_indices == [i \in 1..Len(schedules) |->
                            [k \in 1..Len(schedules[i].schedule_rules) |-> k - 1]]
        single_week == \A i \in 1..Len(schedules) : SchedIsSingleWeek(schedules[i])
        year == AverageYear(schedules, used)
        raised == IF WeightsRaise(schedules, weights) # None
                  THEN WeightsRaise(schedules, weights)
                  ELSE IF single_week THEN None ELSE year.raised
    IN  /\ AtRest
        /\ ret' = IF raised # None
                  THEN [op |-> "average_schedules", raised |-> raised,
                        args |-> [schedules |-> schedules, weights |-> weights],
                        result |-> << >>]
                  ELSE [op |-> "average_schedules", raised |-> None,
                        args |-> [schedules |-> schedules, weights |-> weights],
                        result |->
                            IF single_week
                            THEN _get_avg_week(schedules, used, rule_indices)
                            ELSE _get_avg_week(schedules, used,
                                     RulesEachDay(schedules, 1)),
                        schedule |->
                            IF single_week
                            THEN from_week_daily_values(
                                     _get_avg_week(schedules, used, rule_indices))
                            ELSE year.schedule]
        /\ UNCHANGED <<ruleset_vars, rule, energy_vars>>

\* the schedules averaged and the weights given
AvgSchedule(default, rules) ==
    [default_day_schedule |-> default, schedule_rules |-> rules,
     summer_designday_schedule |-> None, winter_designday_schedule |-> None]
AvgSchedules ==
    {AvgSchedule("A", << >>), AvgSchedule("B", << >>),
     AvgSchedule("Dflt", <<ScheduleRule("B", Weekdays, TRUE, NoDate, NoDate)>>)}
AvgWeights == {0, 1, 2, 3, 4, 5}
AvgWeightLists ==
    {NoWeights} \cup {Weights(<<a>>) : a \in AvgWeights}
    \cup {Weights(<<a, b>>) : a \in AvgWeights, b \in AvgWeights}
AvgScheduleLists ==
    {<<a>> : a \in AvgSchedules}
    \cup {<<a, b>> : a \in AvgSchedules, b \in AvgSchedules}

NextAvg ==
    \E schedules \in AvgScheduleLists, weights \in AvgWeightLists :
        AverageSchedules(schedules, weights)

SpecAvg == Init /\ [][NextAvg]_vars

\* schedules with rules over a part of the year, and the weights given
AvgYearSchedules ==
    {AvgSchedule("A", << >>), AvgSchedule("B", << >>),
     AvgSchedule("Dflt", <<ScheduleRule("B", Weekdays, TRUE, NoDate, NoDate)>>),
     AvgSchedule("Dflt", <<ScheduleRule("B", Weekdays, TRUE, Date(3, 1, FALSE),
                                        Date(8, 31, FALSE))>>),
     AvgSchedule("A", <<ScheduleRule("B", MondayOnly, FALSE, NoDate,
                                     Date(3, 1, FALSE))>>),
     AvgSchedule("B", <<ScheduleRule("A", Weekend, FALSE, Date(9, 1, FALSE),
                                     NoDate),
                        ScheduleRule("Dflt", Weekdays, TRUE, NoDate, NoDate)>>)}
AvgYearWeightLists ==
    {NoWeights, Weights(<<4>>), Weights(<<2, 2>>), Weights(<<1, 3>>),
     Weights(<<1, 2>>)}
AvgYearScheduleLists ==
    {<<a>> : a \in AvgYearSchedules}
    \cup {<<a, b>> : a \in AvgYearSchedules, b \in AvgYearSchedules}

NextAvgYear ==
    \E schedules \in AvgYearScheduleLists, weights \in AvgYearWeightLists :
        AverageSchedules(schedules, weights)

SpecAvgYear == Init /\ [][NextAvgYear]_vars

(***************************************************************************)
(* Setpoint (load/setpoint.py): the humidifying and the dehumidifying      *)
(* schedule.  A schedule is known by its name and the unit of its type     *)
(* limit; NoSchedule stands for None.                                      *)
(***************************************************************************)
NoSchedule == [name |-> None]
SetpointSchedule(schedule_name, unit) == [name |-> schedule_name, unit |-> unit]

\* ScheduleRuleset.from_constant_value(name, value, _type_lib.humidity)
from_constant_value(schedule_name, value) ==
    [name |-> schedule_name, unit |-> "%", value |-> value]

\* Setpoint._humidifying_schedule_no_limit, _dehumidifying_schedule_no_limit
_humidifying_schedule_no_limit == from_constant_value("HumidNoLimit", 0)
_dehumidifying_schedule_no_limit == from_constant_value("DeHumidNoLimit", 100)

\* Setpoint._check_humidity_schedule_type: the unit of the type limit is '%'
_check_humidity_schedule_type(schedule) == schedule.unit = "%"

\* the humidifying_schedule setter
HumidifyingScheduleSetter(sp, value) ==
    IF value # NoSchedule
    THEN IF ~_check_humidity_schedule_type(value)
         THEN [raised |-> "AssertionError", setpoint |-> sp]
         ELSE [raised |-> None,
               setpoint |-> [sp EXCEPT !.humidifying_schedule = value]]
    ELSE [raised |-> None,
          setpoint |-> [sp EXCEPT !.humidifying_schedule =
                           IF sp.dehumidifying_schedule = NoSchedule
                           THEN NoSchedule
                           ELSE _humidifying_schedule_no_limit]]

\* the dehumidifying_schedule setter
DehumidifyingScheduleSetter(sp, value) ==
    IF value # NoSchedule
    THEN IF ~_check_humidity_schedule_type(value)
         THEN [raised |-> "AssertionError", setpoint |-> sp]
         ELSE [raised |-> None,
               setpoint |-> [sp EXCEPT
                   !.dehumidifying_schedule = value,
                   !.humidifying_schedule =
                       IF sp.humidifying_schedule = NoSchedule
                       THEN _humidifying_schedule_no_limit
                       ELSE sp.humidifying_schedule]]
    ELSE [raised |-> None,
          setpoint |-> [sp EXCEPT !.dehumidifying_schedule =
                           IF sp.humidifying_schedule = NoSchedule
                           THEN NoSchedule
                           ELSE _dehumidifying_schedule_no_limit]]

\* a number given as a setpoint, or None
NoNumber == [is_none |-> TRUE, value |-> 0]
Number(value) == [is_none |-> FALSE, value |-> value]

\* float_in_range(value, 0, 100)
float_in_range(value) == 0 <= value /\ value <= 100

\* setpoint = Setpoint(name, heating_schedule, cooling_schedule,
\* humidifying_schedule, dehumidifying_schedule)
NewSetpoint(setpoint_name, humidifying_schedule, dehumidifying_schedule) ==
    LET s0 == [name |-> setpoint_name, humidifying_schedule |-> NoSchedule,
               dehumidifying_schedule |-> NoSchedule]
        s1 == HumidifyingScheduleSetter(s0, humidifying_schedule)
        s2 == DehumidifyingScheduleSetter(s1.setpoint, dehumidifying_schedule)
        raised == IF s1.raised # None THEN s1.raised ELSE s2.raised
    IN  /\ setpoint' = IF raised # None THEN setpoint ELSE s2.setpoint
        /\ ret' = [op |-> "Setpoint", raised |-> raised]
        /\ UNCHANGED <<ruleset_vars, rule, shared_vars, rooms, hvacs, model>>

\* setpoint.humidifying_schedule = value
SetHumidifyingSchedule(value) ==
    /\ setpoint # NoSetpoint
    /\ setpoint' = HumidifyingScheduleSetter(setpoint, value).setpoint
    /\ ret' = [op |-> "set_humidifying_schedule",
               raised |-> HumidifyingScheduleSetter(setpoint, value).raised]
    /\ UNCHANGED <<ruleset_vars, rule, shared_vars, rooms, hvacs, model>>

\* setpoint.dehumidifying_schedule = value
SetDehumidifyingSchedule(value) ==
    /\ setpoint # NoSetpoint
    /\ setpoint' = DehumidifyingScheduleSetter(setpoint, value).setpoint
    /\ ret' = [op |-> "set_dehumidifying_schedule",
               raised |-> DehumidifyingScheduleSetter(setpoint, value).raised]
    /\ UNCHANGED <<ruleset_vars, rule, shared_vars, rooms, hvacs, model>>

\* setpoint.humidifying_setpoint = value
SetHumidifyingSetpoint(value) ==
    LET result ==
            IF value.is_none THEN HumidifyingScheduleSetter(setpoint, NoSchedule)
            ELSE IF ~float_in_range(value.value)
            THEN [raised |-> "AssertionError", setpoint |-> setpoint]
            ELSE HumidifyingScheduleSetter(setpoint,
                     from_constant_value(setpoint.name \o "_DeHumidSetp",
                                         value.value))
    IN  /\ setpoint # NoSetpoint
        /\ setpoint' = result.setpoint
        /\ ret' = [op |-> "set_humidifying_setpoint", raised |-> result.raised]
        /\ UNCHANGED <<ruleset_vars, rule, shared_vars, rooms, hvacs, model>>

\* setpoint.dehumidifying_setpoint = value
SetDehumidifyingSetpoint(value) ==
    LET result ==
            IF value.is_none THEN DehumidifyingScheduleSetter(setpoint, NoSchedule)
            ELSE IF ~float_in_range(value.value)
            THEN [raised |-> "AssertionError", setpoint |-> setpoint]
            ELSE DehumidifyingScheduleSetter(setpoint,
                     from_constant_value(setpoint.name \o "_DeHumidSetp",
                                         value.value))
    IN  /\ setpoint # NoSetpoint
        /\ setpoint' = result.setpoint
        /\ ret' = [op |-> "set_dehumidifying_setpoint", raised |-> result.raised]
        /\ UNCHANGED <<ruleset_vars, rule, shared_vars, rooms, hvacs, model>>

\* setpoint.remove_humidity_setpoints()
RemoveHumiditySetpoints ==
    /\ setpoint # NoSetpoint
    /\ setpoint' = [setpoint EXCEPT !.humidifying_schedule = NoSchedule,
                                    !.dehumidifying_schedule = NoSchedule]
    /\ ret' = [op |-> "remove_humidity_setpoints", raised |-> None]
    /\ UNCHANGED <<ruleset_vars, rule, shared_vars, rooms, hvacs, model>>

\* the schedules and numbers assigned: a temperature schedule is rejected, and
\* so is a number above 100
HumiditySchedules ==
    {NoSchedule, SetpointSchedule("Humid", "%"), SetpointSchedule("Dehumid", "%"),
     SetpointSchedule("Temp", "C")}
HumiditySetpoints == {NoNumber, Number(30), Number(70), Number(120)}

NextSetpoint ==
    \/ \E h \in HumiditySchedules, d \in HumiditySchedules :
            NewSetpoint("Setp", h, d)
    \/ \E value \in HumiditySchedules : SetHumidifyingSchedule(value)
    \/ \E value \in HumiditySchedules : SetDehumidifyingSchedule(value)
    \/ \E value \in HumiditySetpoints : SetHumidifyingSetpoint(value)
    \/ \E value \in HumiditySetpoints : SetDehumidifyingSetpoint(value)
    \/ RemoveHumiditySetpoints

SpecSetpoint == Init /\ [][NextSetpoint]_vars

(***************************************************************************)
(* RoomEnergyProperties.hvac (properties/room.py) and IdealAirSystem       *)
(***************************************************************************)
MaxRooms == 3
MaxHvacs == 3

\* IdealAirSystem(): self._parent = None
NewIdealAirSystem ==
    /\ Len(hvacs) < MaxHvacs
    /\ hvacs' = Append(hvacs, 0)
    /\ ret' = [op |-> "IdealAirSystem", raised |-> None]
    /\ UNCHANGED <<ruleset_vars, rule, shared_vars, setpoint, rooms, model>>

\* the hvac setter of the properties object p
HvacSetter(p, value) ==
    IF value # 0 /\ hvacs[value] # 0
    THEN [raised |-> "ValueError", rooms |-> rooms, hvacs |-> hvacs]
    ELSE [raised |-> None,
          rooms |-> [rooms EXCEPT ![p].hvac = value],
          hvacs |-> IF value # 0
                    THEN [hvacs EXCEPT ![value] = rooms[p].host] ELSE hvacs]

\* rooms[p].hvac = value
SetHvac(p, value) ==
    /\ p \in 1..Len(rooms) /\ value \in 0..Len(hvacs)
    /\ rooms' = HvacSetter(p, value).rooms
    /\ hvacs' = HvacSetter(p, value).hvacs
    /\ ret' = [op |-> "set_hvac", raised |-> HvacSetter(p, value).raised,
               room |-> p, value |-> value]
    /\ UNCHANGED <<ruleset_vars, rule, shared_vars, setpoint, model>>

\* rooms[p].duplicate(new_host): the copy has a duplicate of the hvac, whose
\* parent the constructor sets to the host of the copy; new_host = 0 stands
\* for None (the host of the copy is the host of p)
DuplicateRoom(p, new_host) ==
    LET _host == IF new_host # 0 THEN new_host ELSE rooms[p].host
        is_conditioned == rooms[p].hvac # 0
    IN  /\ p \in 1..Len(rooms)
        /\ Len(rooms) < MaxRooms
        /\ is_conditioned => Len(hvacs) < MaxHvacs
        /\ hvacs' = IF is_conditioned THEN Append(hvacs, _host) ELSE hvacs
        /\ rooms' = Append(rooms,
                           [host |-> _host,
                            hvac |-> IF is_conditioned THEN Len(hvacs) + 1
                                     ELSE 0])
        /\ ret' = [op |-> "duplicate_room", raised |-> None]
        /\ UNCHANGED <<ruleset_vars, rule, shared_vars, setpoint, model>>

NextHvac ==
    \/ NewIdealAirSystem
    \/ \E p \in 1..MaxRooms, value \in 0..MaxHvacs : SetHvac(p, value)
    \* the copy is hosted by the Room of the original, or by a third Room
    \/ \E p \in 1..MaxRooms, new_host \in {0, 3} : DuplicateRoom(p, new_host)

SpecHvac == Init /\ [][NextHvac]_vars

(***************************************************************************)
(* ModelEnergyProperties.schedules and check_duplicate_schedule_names      *)
(* (properties/model.py)                                                   *)
(***************************************************************************)
\* _check_and_add_schedule(load_sched, schedules): appended unless the same
\* object is in the list already
_check_and_add_schedule(load_sched, schedules) ==
    IF \E k \in 1..Len(schedules) : schedules[k] = load_sched THEN schedules
    ELSE Append(schedules, load_sched)

\* list(set(schedules)): equal objects are one element; None (0) stays
SetOfSchedules(schedules) ==
    {IF schedules[k] = 0 THEN NoSchedule ELSE model.schedules[schedules[k]] :
        k \in 1..Len(schedules)}

\* ModelEnergyProperties.room_schedules: None is not added for a missing
\* lighting, but the availability schedules of an hvac are added as they are
room_schedules ==
    LET s1 == IF model.lighting # 0
              THEN _check_and_add_schedule(model.lighting, << >>) ELSE << >>
        s2 == IF ~model.hvac.is_none
              THEN _check_and_add_schedule(
                       model.hvac.cooling_availability_schedule,
                       _check_and_add_schedule(
                           model.hvac.heating_availability_schedule, s1))
              ELSE s1
    IN  SetOfSchedules(s2)

\* ModelEnergyProperties.shade_schedules
shade_schedules ==
    IF model.transmittance_schedule # 0
    THEN SetOfSchedules(<<model.transmittance_schedule>>) ELSE {}

\* ModelEnergyProperties.schedules
schedules ==
    SetOfSchedules(model.program_type) \cup room_schedules \cup shade_schedules

\* the names that more than one schedule of schedules has
duplicate_names ==
    {a.name : a \in {b \in schedules :
                        \E c \in schedules : c # b /\ c.name = b.name}}

\* ModelEnergyProperties.check_duplicate_schedule_names(raise_exception):
\* sched.name of None raises AttributeError
CheckDuplicateScheduleNames(raise_exception) ==
    /\ ret' = [op |-> "check_duplicate_schedule_names",
               raise_exception |-> raise_exception,
               raised |-> IF NoSchedule \in schedules THEN "AttributeError"
                          ELSE IF duplicate_names # {} /\ raise_exception
                          THEN "ValueError" ELSE None,
               result |-> IF NoSchedule \in schedules THEN None
                          ELSE IF duplicate_names # {}
                          THEN IF raise_exception THEN None ELSE "False"
                          ELSE "True"]
    /\ UNCHANGED <<ruleset_vars, rule, energy_vars>>

\* room.properties.energy.lighting = Lighting(name, watts_per_area, schedule)
SetLighting(schedule) ==
    /\ model' = [model EXCEPT !.lighting = schedule]
    /\ ret' = [op |-> "set_lighting", raised |-> None]
    /\ UNCHANGED <<ruleset_vars, rule, shared_vars, setpoint, rooms, hvacs>>

\* shade.properties.energy.transmittance_schedule = schedule
SetTransmittanceSchedule(schedule) ==
    /\ model' = [model EXCEPT !.transmittance_schedule = schedule]
    /\ ret' = [op |-> "set_transmittance_schedule", raised |-> None]
    /\ UNCHANGED <<ruleset_vars, rule, shared_vars, setpoint, rooms, hvacs>>

\* room.properties.energy.hvac = IdealAirSystem(
\*     heating_availability_schedule=heating, cooling_availability_schedule=
\*     cooling), both None by default; or room.properties.energy.hvac = None
SetModelHvac(is_none, heating, cooling) ==
    /\ model' = [model EXCEPT !.hvac =
                    [is_none |-> is_none,
                     heating_availability_schedule |-> heating,
                     cooling_availability_schedule |-> cooling]]
    /\ ret' = [op |-> "set_model_hvac", raised |-> None]
    /\ UNCHANGED <<ruleset_vars, rule, shared_vars, setpoint, rooms, hvacs>>

\* sched.unlock(); sched.name = value; sched.lock()
RenameSchedule(sched, value) ==
    /\ model' = [model EXCEPT !.schedules[sched].name = value]
    /\ ret' = [op |-> "rename_schedule", raised |-> None, schedule |-> sched,
               name |-> value]
    /\ UNCHANGED <<ruleset_vars, rule, shared_vars, setpoint, rooms, hvacs>>

NextModel ==
    \/ \E raise_exception \in BOOLEAN : CheckDuplicateScheduleNames(raise_exception)
    \/ \E schedule \in {0, 3, 4} : SetLighting(schedule)
    \/ \E schedule \in {0, 2} : SetTransmittanceSchedule(schedule)
    \/ SetModelHvac(TRUE, 0, 0)
    \/ \E heating \in {0, 4} : SetModelHvac(FALSE, heating, heating)
    \/ \E sched \in {3, 4}, value \in {"Fritted Glass", "Half Occupied", "Half Lit"} :
            RenameSchedule(sched, value)

SpecModel == Init /\ [][NextModel]_vars

(***************************************************************************)
(* lock() and unlock() of rulesets that refer to the same ScheduleDay      *)
(* objects (_check_schedule_parent accepts a ScheduleDay that has a parent) *)
(***************************************************************************)
\* the ScheduleDay objects that lock() and unlock() of a ruleset reach: the
\* default day, the design days that are not None, the day of every rule
DaysOf(s) ==
    ({s.default_day_schedule, s.summer_designday_schedule,
      s.winter_designday_schedule}
     \cup {s.schedule_rules[k].schedule_day : k \in 1..Len(s.schedule_rules)}) \ {0}

\* ScheduleRuleset.lock() / unlock() of ruleset i: _locked, the days, and
\* rule.lock() / rule.unlock() of every rule, which reaches its schedule_day
SetLocked(i, value) ==
    /\ sets' = [sets EXCEPT ![i]._locked = value,
                            ![i].schedule_rules = LockRules(@, value)]
    /\ day_locked' = [d \in 1..MaxDays |-> IF d \in DaysOf(sets[i]) THEN value ELSE day_locked[d]]
    /\ UNCHANGED <<ruleset_vars, rule, setpoint, rooms, hvacs, model>>

LockSet(i) ==
    /\ SetLocked(i, TRUE)
    /\ ret' = [op |-> "lock", raised |-> None, set |-> i]

UnlockSet(i) ==
    /\ SetLocked(i, FALSE)
    /\ ret' = [op |-> "unlock", raised |-> None, set |-> i]

\* sets[i] = ScheduleRuleset(name, default_day, None, summer_designday,
\* winter_designday): _check_schedule_parent accepts every ScheduleDay
Construct(i, default_day, summer_designday, winter_designday) ==
    /\ sets' = [sets EXCEPT ![i] =
                    NewRuleset(default_day, summer_designday, winter_designday)]
    /\ ret' = [op |-> "construct", raised |-> None, set |-> i]
    /\ UNCHANGED <<ruleset_vars, rule, setpoint, rooms, hvacs, model, day_locked>>

\* sets[i].add_rule(ScheduleRule(schedule_day)): the new rule is not locked,
\* schedule_day is as it is, and the list is changed whether or not the
\* ruleset is locked
AddRuleTo(i, schedule_day) ==
    /\ Len(sets[i].schedule_rules) < 1
    /\ sets' = [sets EXCEPT ![i].schedule_rules =
                    PyInsert(@, 0, [_locked |-> FALSE,
                                    schedule_day |-> schedule_day])]
    /\ ret' = [op |-> "add_rule", raised |-> None, set |-> i,
               locked |-> sets[i]._locked]
    /\ UNCHANGED <<ruleset_vars, rule, setpoint, rooms, hvacs, model, day_locked>>

NextShared ==
    \/ \E i \in 1..2 : LockSet(i)
    \/ \E i \in 1..2 : UnlockSet(i)
    \/ \E i \in 1..2, default_day \in 1..MaxDays, summer_designday \in 0..MaxDays,
          winter_designday \in {0, MaxDays} :
            Construct(i, default_day, summer_designday, winter_designday)
    \/ \E i \in 1..2, schedule_day \in 1..MaxDays : AddRuleTo(i, schedule_day)

SpecShared == Init /\ [][NextShared]_vars

(***************************************************************************)
(* to_rules(start_date, end_date)                                          *)
(***************************************************************************)
\* ScheduleRuleset.to_rules(start_date, end_date)
ToRules(start_date, end_date) ==
    LET kept == ToRulesKept(schedule_rules, 1, << >>, start_date, end_date)
        raised == IF kept.raised # None THEN kept.raised
                  ELSE IF ~ScheduleRuleInitOk(start_date, end_date)
                  THEN "AssertionError" ELSE None
    IN  /\ AtRest
        /\ ret' = [op |-> "to_rules", raised |-> raised,
                   args |-> [start_date |-> start_date, end_date |-> end_date],
                   result |-> IF raised # None THEN << >>
                              ELSE Append(kept.rules,
                                      ToRulesDefaultRule(kept.rules,
                                          default_day_schedule, start_date,
                                          end_date))]
        /\ UNCHANGED <<ruleset_vars, rule, energy_vars>>

\* the rules of the rulesets to_rules is called on, and the periods asked for
ToRulesAddedRules ==
    {ScheduleRule(day, wk, hol, r[1], r[2]) :
        day \in DayNames, wk \in {Weekdays, MondayOnly}, hol \in BOOLEAN,
        r \in {<<NoDate, NoDate>>, <<Date(1, 5, FALSE), Date(1, 10, FALSE)>>,
               <<Date(1, 12, FALSE), Date(1, 25, FALSE)>>}}
ToRulesPeriods ==
    {<<Date(1, 10, FALSE), Date(1, 20, FALSE)>>,
     <<Date(1, 11, FALSE), Date(1, 31, FALSE)>>,
     <<Date(1, 1, FALSE), Date(12, 31, FALSE)>>}

NextToRules ==
    \/ \E r \in ToRulesAddedRules : AddRule(r)
    \/ \E i \in 0..MaxRules : RemoveRule(i)
    \/ \E p \in ToRulesPeriods : ToRules(p[1], p[2])

SpecToRules == Init /\ [][NextToRules]_vars

(***************************************************************************)
(* ScheduleRuleset.from_idf: a ruleset from a Schedule:Year and its        *)
(* Schedule:Week:Daily objects                                             *)
(***************************************************************************)
\* applied_day_names.index(day_sch_name)
IndexOfDay(schedule_rules_, day_sch_name) ==
    CHOOSE k \in 1..Len(schedule_rules_) :
        /\ schedule_rules_[k].schedule_day = day_sch_name
        /\ \A j \in 1..(k - 1) : schedule_rules_[j].schedule_day # day_sch_name

\* ScheduleRule.extract_all_from_schedule_week of a Schedule:Week:Daily, from
\* the i-th of its eight day fields on: a new rule for a day schedule not met
\* before, apply_day_by_dow on the rule of one met before. The rule objects
\* of the week named w are 10 * w + 1, 10 * w + 2, ...
RECURSIVE extract_all_from_schedule_week(_, _, _)
extract_all_from_schedule_week(week, i, rules) ==
    IF i > 8 THEN rules
    ELSE IF \E k \in 1..Len(rules) : rules[k].schedule_day = week.days[i]
    THEN extract_all_from_schedule_week(week, i + 1,
             [rules EXCEPT ![IndexOfDay(rules, week.days[i])] =
                               apply_day_by_dow(@, i)])
    ELSE extract_all_from_schedule_week(week, i + 1,
             Append(rules,
                    [apply_day_by_dow(
                         ScheduleRule(week.days[i], NoDays, FALSE, NoDate, NoDate),
                         i)
                        EXCEPT !.id = 10 * week.name + Len(rules) + 1]))

\* ScheduleRuleset._idf_week_schedule_dictionary: the rules and the design
\* days of every week schedule, by its name
_idf_week_schedule_dictionary(week_schedules) ==
    [w \in {week_schedules[k].name : k \in 1..Len(week_schedules)} |->
        LET week == CHOOSE x \in {week_schedules[k] : k \in 1..Len(week_schedules)} :
                        x.name = w
        IN  [rules |-> extract_all_from_schedule_week(week, 1, << >>),
             designdays |-> <<week.extra[1], week.extra[2]>>]]

\* for rule in rules: rule.start_date = st_date; rule.end_date = end_date
SetRuleRange(r, st_date, end_date) ==
    LET started == StartDateSetter(r, st_date)
    IN  IF started.raised # None THEN started
        ELSE EndDateSetter(started.rule, end_date)

\* the loop of from_idf over the entries of the Schedule:Year from the k-th
\* on: rules is week_sch_dict[year_sch[i]], the rule objects of the week, the
\* same ones for every entry that names the week
RECURSIVE FromIdfEntries(_, _, _)
FromIdfEntries(fields, k, week_sch_dict) ==
    IF k > Len(fields) THEN [raised |-> None, week_sch_dict |-> week_sch_dict]
    ELSE LET rules == week_sch_dict[fields[k].week].rules
             st_date == Date(fields[k].start_month, fields[k].start_day, FALSE)
             end_date == Date(fields[k].end_month, fields[k].end_day, FALSE)
             assigned == [j \in 1..Len(rules) |->
                             SetRuleRange(rules[j], st_date, end_date)]
         IN  IF \E j \in 1..Len(rules) : assigned[j].raised # None
             THEN [raised |-> "AssertionError", week_sch_dict |-> week_sch_dict]
             ELSE FromIdfEntries(fields, k + 1,
                      [week_sch_dict EXCEPT ![fields[k].week].rules =
                          [j \in 1..Len(rules) |-> assigned[j].rule]])

\* all_rules after the loop: the rule objects in the order they were
\* extended by, every object as the loop left it
RECURSIVE AllRules(_, _, _)
AllRules(fields, k, week_sch_dict) ==
    IF k > Len(fields) THEN << >>
    ELSE week_sch_dict[fields[k].week].rules
             \o AllRules(fields, k + 1, week_sch_dict)

\* schedule = ScheduleRuleset.from_idf(year_idf_string, week_idf_strings,
\* day_idf_strings): fields are the entries of the Schedule:Year; emitted
\* tells that the strings are those of schedule.to_idf()
FromIdf(fields, week_schedules, emitted) ==
    LET entries == FromIdfEntries(fields, 1,
                       _idf_week_schedule_dictionary(week_schedules))
        all_rules == AllRules(fields, 1, entries.week_sch_dict)
        designdays == entries.week_sch_dict[fields[1].week].designdays
    IN  /\ ret' = [op |-> "from_idf", raised |-> entries.raised,
                   emitted |-> emitted,
                   args |-> [fields |-> fields, week_schedules |-> week_schedules],
                   entry_rules |->
                       IF entries.raised # None THEN << >>
                       ELSE [k \in 1..Len(fields) |->
                                entries.week_sch_dict[fields[k].week].rules]]
        /\ IF entries.raised # None
           THEN UNCHANGED <<ruleset_vars, rule, energy_vars>>
           ELSE /\ default_day_schedule' = all_rules[1].schedule_day
                /\ schedule_rules' = Tail(all_rules)
                /\ schedule_type_limit' = None
                /\ summer_designday_schedule' = designdays[1]
                /\ winter_designday_schedule' = designdays[2]
                /\ locked' = FALSE
                /\ UNCHANGED <<name, other, rule, energy_vars>>

\* from_idf of what to_idf() has just returned
FromIdfOfToIdf ==
    /\ ret.op = "to_idf"
    /\ ret.raised = None
    /\ ret.year_schedule.type = "Schedule:Year"
    /\ FromIdf(ret.year_schedule.fields, ret.week_schedules, TRUE)

\* Schedule:Year and Schedule:Week:Daily objects written by hand: two week
\* schedules, the first of them named by the first and the last entry of the
\* year, the entries in the order of the year or in the reverse order
YearEntry(week, start_month, start_day, end_month, end_day) ==
    [week |-> week, start_month |-> start_month, start_day |-> start_day,
     end_month |-> end_month, end_day |-> end_day]
IdfWeekSchedules ==
    <<[name |-> 1, days |-> <<"A", "A", "A", "A", "A", "A", "A", "A">>,
       extra |-> <<"Smr", "Wntr", "A", "A">>],
      [name |-> 2, days |-> <<"A", "B", "B", "B", "B", "B", "A", "A">>,
       extra |-> <<"Smr", "Wntr", "A", "A">>]>>
IdfYears ==
    {<<YearEntry(1, 1, 1, 3, 31), YearEntry(2, 4, 1, 6, 30),
       YearEntry(1, 7, 1, 12, 31)>>,
     <<YearEntry(1, 7, 1, 12, 31), YearEntry(2, 4, 1, 6, 30),
       YearEntry(1, 1, 1, 3, 31)>>,
     <<YearEntry(1, 1, 1, 6, 30), YearEntry(2, 7, 1, 12, 31)>>}

\* from_idf of the objects written by hand
FromIdfStrings(fields) ==
    /\ AtRest
    /\ FromIdf(fields, IdfWeekSchedules, FALSE)

NextFromIdf ==
    \/ \E r \in IdfAddedRules : AddRule(r)
    \/ ToIdf
    \/ FromIdfOfToIdf
    \/ \E fields \in IdfYears : FromIdfStrings(fields)

SpecFromIdf == InitIdf /\ [][NextFromIdf]_vars

(***************************************************************************)
(* Claims about values() (checked under Spec)                              *)
(***************************************************************************)
ValuesReturned == ret.op = "values" /\ ret.raised = None

\* the rule's date range holds on a day of the year of the queried calendar
InDateRange(r, doy, leap_year) ==
    IF leap_year THEN does_rule_apply_doy_leap_year(r, doy)
    ELSE does_rule_apply_doy(r, doy)

\* the rule applies to a day of values(): on a holiday by apply_holiday and the
\* date range, on any other day by the date range and the flag of the weekday
RuleAppliesOn(r, c, leap_year) ==
    /\ InDateRange(r, c.doy, leap_year)
    /\ IF c.hol THEN r.apply_holiday ELSE DowFlag(r, c.dow)

\* C1: every day of values() carries the values of the first rule, in
\* schedule_rules order, that applies to the day, and those of the default day
\* when no rule applies; a later rule that applies as well never contributes.
C1_FirstApplyingRuleWins ==
    ValuesReturned =>
        \A k \in 1..Len(ret.values) :
            LET c == ret.values[k]
                applying == {j \in 1..Len(schedule_rules) :
                                RuleAppliesOn(schedule_rules[j], c, ret.leap_year)}
            IN  IF applying = {}
                THEN c.vals.day = default_day_schedule
                ELSE \E j \in applying :
                        /\ \A l \in applying : j <= l
                        /\ c.vals.day = schedule_rules[j].schedule_day

\* two rules with different days apply to one day and the day has the first one's
\* values; the ruleset with the two rules swapped is reachable as well
C1_Witness ==
    /\ ValuesReturned
    /\ Len(schedule_rules) = 2
    /\ schedule_rules[1].schedule_day # schedule_rules[2].schedule_day
    /\ schedule_rules[1].start_doy > schedule_rules[2].start_doy
    /\ \E k \in 1..Len(ret.values) :
          /\ RuleAppliesOn(schedule_rules[1], ret.values[k], ret.leap_year)
          /\ RuleAppliesOn(schedule_rules[2], ret.values[k], ret.leap_year)
          /\ ret.values[k].vals.day = schedule_rules[1].schedule_day

\* C2: values() appends exactly one day's values for each day of the year from
\* start_date to end_date, so it returns (end_doy - start_doy + 1) * 24 * timestep
\* values: 8760 * timestep for a whole non-leap year, 8784 * timestep for a
\* whole leap year.
C2_OneDayProfilePerDay ==
    ValuesReturned =>
        LET days == Doy(ret.end_date) - Doy(ret.start_date) + 1
            whole_year == /\ ret.start_date.month = 1 /\ ret.start_date.day = 1
                          /\ ret.end_date.month = 12 /\ ret.end_date.day = 31
        IN  /\ Len(ret.values) = days
            /\ \A k \in 1..Len(ret.values) :
                  /\ ret.values[k].doy = Doy(ret.start_date) + k - 1
                  /\ ret.values[k].vals.n = 24 * ret.timestep
            /\ whole_year =>
                  Len(ret.values) * 24 * ret.timestep =
                      (IF ret.leap_year THEN 8784 ELSE 8760) * ret.timestep

\* a whole leap year at four steps an hour
C2_Witness ==
    /\ ValuesReturned
    /\ ret.leap_year /\ ret.timestep = 4
    /\ Len(ret.values) = 366
    /\ Len(schedule_rules) = 2

\* C4: on a holiday values() takes a rule only if the rule has apply_holiday and
\* its date range holds on the day, whatever the rule's day-of-week flags; it
\* takes the first such rule and the default day when there is none.
C4_HolidayIgnoresDow ==
    ValuesReturned =>
        \A k \in 1..Len(ret.values) :
            LET c == ret.values[k]
                qualifies == {j \in 1..Len(schedule_rules) :
                                 /\ schedule_rules[j].apply_holiday
                                 /\ InDateRange(schedule_rules[j], c.doy,
                                                ret.leap_year)}
            IN  c.hol =>
                  /\ c.i < Len(schedule_rules) =>
                        /\ c.i + 1 \in qualifies
                        /\ \A j \in qualifies : c.i + 1 <= j
                  /\ c.i = Len(schedule_rules) =>
                        /\ qualifies = {}
                        /\ c.vals.day = default_day_schedule

\* a holiday on a weekday inside the range of a rule without apply_holiday,
\* whose weekday flag is true: the rule is passed over
C4_Witness ==
    /\ ValuesReturned
    /\ Len(schedule_rules) >= 1
    /\ ~schedule_rules[1].apply_holiday
    /\ \E k \in 1..Len(ret.values) :
          LET c == ret.values[k]
          IN  /\ c.hol
              /\ DowFlag(schedule_rules[1], c.dow)
              /\ InDateRange(schedule_rules[1], c.doy, ret.leap_year)
              /\ c.i # 0

\* the day of the week that a start_dow names: Sunday = 1 ... Saturday = 7
DowNumber(start_dow) ==
    CASE start_dow = "sunday" -> 1
      [] start_dow = "monday" -> 2
      [] start_dow = "tuesday" -> 3
      [] start_dow = "wednesday" -> 4
      [] start_dow = "thursday" -> 5
      [] start_dow = "friday" -> 6
      [] start_dow = "saturday" -> 7

\* C7: the first day of values() is resolved with the day of the week that
\* start_dow names and the k-th following day with that day advanced by k modulo
\* 7, holidays counted like any other day.
C7_DowFollowsStartDow ==
    ValuesReturned =>
        \A k \in 1..Len(ret.values) :
            ret.values[k].dow = ((DowNumber(ret.start_dow) - 1 + (k - 1)) % 7) + 1

\* the days of the year values() walked
DaysWalked == {ret.values[k].doy : k \in 1..Len(ret.values)}
\* the walked days values() took for holidays
HolidaysTested == {ret.values[k].doy : k \in {j \in 1..Len(ret.values) : ret.values[j].hol}}

\* C19 as stated: values() walks the days of the year of start_date and
\* end_date as they were supplied, and takes for holidays the days of the year
\* of the holiday dates as supplied, whatever the leap_year flag.
C19_DatesUsedAsSupplied ==
    ValuesReturned =>
        /\ DaysWalked = Doy(ret.args.start_date)..Doy(ret.args.end_date)
        /\ HolidaysTested =
               DaysWalked \cap {Doy(hol) : hol \in ret.args.holidays}

\* C19, amended: values() walks the days of the year that the month and day of
\* start_date and end_date have in the calendar of the leap_year flag, and
\* takes for holidays the days of the year that the month and day of the
\* holiday dates have in that calendar.
C19_DatesReconstructedInTargetCalendar ==
    ValuesReturned =>
        /\ DaysWalked =
               Doy(Date(ret.args.start_date.month, ret.args.start_date.day,
                        ret.leap_year))
               .. Doy(Date(ret.args.end_date.month, ret.args.end_date.day,
                           ret.leap_year))
        /\ HolidaysTested =
               DaysWalked \cap {Doy(Date(hol.month, hol.day, ret.leap_year)) :
                                   hol \in ret.args.holidays}

\* values() returned for an end_date and a holiday of the other calendar whose
\* days of the year differ between the two calendars
C19_Witness ==
    /\ ValuesReturned
    /\ ret.args.end_date.leap_year # ret.leap_year
    /\ DaysWalked # Doy(ret.args.start_date)..Doy(ret.args.end_date)
    /\ \E hol \in ret.args.holidays :
          /\ hol.leap_year # ret.leap_year
          /\ Doy(Date(hol.month, hol.day, ret.leap_year)) \in HolidaysTested
          /\ Doy(hol) # Doy(Date(hol.month, hol.day, ret.leap_year))

(***************************************************************************)
(* Claims about to_idf() (checked under SpecIdf)                           *)
(***************************************************************************)
YearReturned ==
    /\ ret.op = "to_idf"
    /\ ret.raised = None
    /\ ret.year_schedule.type = "Schedule:Year"

\* the date (month, day) lies in the k-th entry of the Schedule:Year
EntryContains(k, month, day) ==
    LET e == ret.year_schedule.fields[k]
    IN  /\ \/ e.start_month < month
           \/ e.start_month = month /\ e.start_day <= day
        /\ \/ month < e.end_month
           \/ month = e.end_month /\ day <= e.end_day

\* the day that values() selects on a day of the year: the rule's day of the
\* index that the loop of _get_sch_values extends values by
ValuesDay(doy, dow, hol, leap_year) ==
    LET i == DayIndex(schedule_rules, doy, dow, IF hol THEN {doy} ELSE {},
                      leap_year)
    IN  IF i < Len(schedule_rules) THEN schedule_rules[i + 1].schedule_day
        ELSE default_day_schedule

\* C8: for every day of a leap or a non-leap year, whatever its weekday and
\* whether or not it is a holiday, some entry of the Schedule:Year contains its
\* date, and the slot of the entry's week schedule for the weekday (the holiday
\* slot on a holiday) names the day that values() selects.
C8_RoundTrip ==
    YearReturned =>
        \A leap_year \in BOOLEAN :
            \A doy \in 1..(IF leap_year THEN 366 ELSE 365) :
                LET date == DateFromDoy(doy, leap_year)
                IN  \E k \in 1..Len(ret.year_schedule.fields) :
                       /\ EntryContains(k, date.month, date.day)
                       /\ \A dow \in 1..7, hol \in BOOLEAN :
                             ret.week_schedules[ret.year_schedule.fields[k].week]
                                 .days[IF hol THEN 8 ELSE dow]
                                 = ValuesDay(doy, dow, hol, leap_year)

\* C9: the Schedule:Year has as many week schedule names as date ranges; the
\* first range starts on Jan 1, the last ends on Dec 31, every range has
\* start <= end and every range after the first starts on the day after the end
\* of the one before, so every day of the year lies in exactly one entry.
C9_TimelineOrderedGapFree ==
    YearReturned =>
        LET names == ret.year_schedule.yr_wk_s_names
            ranges == ret.year_schedule.yr_wk_dt_range
            n == Len(ranges)
        IN  /\ Len(names) = n
            /\ Len(ret.year_schedule.fields) = n
            /\ n >= 1
            /\ ranges[1][1] = Date(1, 1, FALSE)
            /\ ranges[n][2] = Date(12, 31, FALSE)
            /\ \A k \in 1..n : Doy(ranges[k][1]) <= Doy(ranges[k][2])
            /\ \A k \in 2..n : Doy(ranges[k][1]) = Doy(ranges[k - 1][2]) + 1
            /\ LET doys == {<<k, Doy(ranges[k][1]), Doy(ranges[k][2])>> :
                                k \in 1..n}
               IN  \A doy \in 1..365 :
                      Cardinality({e \in doys : e[2] <= doy /\ doy <= e[3]}) = 1

\* a year of three entries: a rule from Mar 1 to Aug 31 over the default week
C9_Witness ==
    /\ YearReturned
    /\ Len(ret.year_schedule.yr_wk_dt_range) = 3
    /\ ret.year_schedule.yr_wk_dt_range[2]
           = <<Date(3, 1, FALSE), Date(8, 31, FALSE)>>

\* C10: no two week schedules of to_idf() name the same days in the same slots,
\* and no two consecutive entries of the Schedule:Year name the same week
\* schedule, also when stretches of the year with different sets of rules in
\* range come to the same week.
C10_CompactionMinimal ==
    YearReturned =>
        /\ \A a, b \in 1..Len(ret.week_schedules) :
              (/\ ret.week_schedules[a].days = ret.week_schedules[b].days
               /\ ret.week_schedules[a].extra = ret.week_schedules[b].extra)
                  => a = b
        /\ \A k \in 2..Len(ret.year_schedule.fields) :
              ret.year_schedule.fields[k].week
                  # ret.year_schedule.fields[k - 1].week

\* the sets of rules in range over the year outnumber the week schedules: two
\* of them come to the same week, and the days on which one follows the other
\* open no entry
C10_Witness ==
    /\ YearReturned
    /\ ~is_single_week
    /\ Cardinality({RulesOnDoy(doy) : doy \in 1..365}) > Len(ret.week_schedules)
    /\ \E doy \in 2..365 :
          /\ RulesOnDoy(doy) # RulesOnDoy(doy - 1)
          /\ \A k \in 1..Len(ret.year_schedule.yr_wk_dt_range) :
                Doy(ret.year_schedule.yr_wk_dt_range[k][1]) # doy

\* the day of the first rule of rule_indices that has apply_holiday, the default
\* day when there is none
RECURSIVE HolidayDayWithin(_, _)
HolidayDayWithin(rule_indices, k) ==
    IF k > Len(rule_indices) THEN default_day_schedule
    ELSE IF schedule_rules[rule_indices[k] + 1].apply_holiday
         THEN schedule_rules[rule_indices[k] + 1].schedule_day
         ELSE HolidayDayWithin(rule_indices, k + 1)

\* C11: the week schedule of every entry of the Schedule:Year is filled from the
\* rules in range during the entry only: each weekday slot names the day of the
\* first of them with the weekday's flag, the Holiday slot the day of the first
\* of them with apply_holiday, and a slot none of them fills the default day.
C11_WeekSlotsFromIndexSet ==
    YearReturned =>
        \A k \in 1..Len(ret.year_schedule.yr_wk_dt_range) :
            LET rule_indices ==
                    RulesOnDoy(Doy(ret.year_schedule.yr_wk_dt_range[k][1]))
                days == ret.week_schedules[ret.year_schedule.yr_wk_s_names[k]].days
            IN  /\ \A dow \in 0..6 :
                      days[dow + 1] = FirstDayOfWeekRule(rule_indices, 1, dow)
                /\ days[8] = HolidayDayWithin(rule_indices, 1)

\* C12: to_idf() of a ruleset without rules returns a Schedule:Year of one
\* entry from Jan 1 to Dec 31 and one week schedule, whose seven weekday slots
\* and Holiday slot name the default day, whether or not the default day is
\* constant and whether or not the design days are set.
C12_NoRulesSingleDefaultWeek ==
    (ret.op = "to_idf" /\ schedule_rules = << >>) =>
        /\ ret.raised = None
        /\ ret.year_schedule.type = "Schedule:Year"
        /\ ret.year_schedule.fields =
               <<[week |-> 1, start_month |-> 1, start_day |-> 1,
                  end_month |-> 12, end_day |-> 31]>>
        /\ Len(ret.week_schedules) = 1
        /\ \A slot \in 1..8 :
              ret.week_schedules[1].days[slot] = default_day_schedule

\* C13: to_idf() of a ruleset that is not constant succeeds when a design day is
\* None, and every week schedule then names the default day in the slot of the
\* missing summer (winter) design day.
C13_MissingDesignDayIsDefault ==
    (ret.op = "to_idf" /\ ~is_constant) =>
        /\ ret.raised = None
        /\ \A i \in 1..Len(ret.week_schedules) :
              /\ summer_designday_schedule = None =>
                    ret.week_schedules[i].extra[1] = default_day_schedule
              /\ winter_designday_schedule = None =>
                    ret.week_schedules[i].extra[2] = default_day_schedule

(***************************************************************************)
(* Claims about add_rule() and lock() (checked under Spec and SpecLock)    *)
(***************************************************************************)
\* C14: add_rule(r) on an unlocked ruleset puts r at index 0, makes the list one
\* longer and leaves the rules that were there in their order, one index up;
\* values() called next has r's day on every day to which r applies.
C14_AddRuleIsHighestPriority ==
    [][/\ (~locked /\ ret'.op = "add_rule") =>
             /\ ret'.raised = None
             /\ Len(schedule_rules') = Len(schedule_rules) + 1
             /\ schedule_rules'[1] = ret'.rule
             /\ \A k \in 1..Len(schedule_rules) :
                   schedule_rules'[k + 1] = schedule_rules[k]
       /\ (~locked /\ ret.op = "add_rule" /\ ret'.op = "values"
              /\ ret'.raised = None) =>
             \A k \in 1..Len(ret'.values) :
                 RuleAppliesOn(ret.rule, ret'.values[k], ret'.leap_year) =>
                     ret'.values[k].vals.day = ret.rule.schedule_day]_vars

\* a rule was added in front of a rule with another day
C14_Witness ==
    /\ ~locked
    /\ ret.op = "add_rule"
    /\ Len(schedule_rules) = 2
    /\ schedule_rules[1] = ret.rule
    /\ schedule_rules[1].schedule_day # schedule_rules[2].schedule_day

\* C15: while the ruleset is locked, add_rule, remove_rule, reorder_rule and the
\* assignment of name, default_day_schedule, schedule_rules, the design days
\* and the type limit all fail and leave the ruleset as it was.
C15_LockedRejectsMutation ==
    [][(locked /\ ret'.op \notin {"lock", "unlock"}) =>
          /\ ret'.raised # None
          /\ UNCHANGED <<schedule_rules, default_day_schedule,
                         summer_designday_schedule, winter_designday_schedule,
                         name, schedule_type_limit>>]_vars

(***************************************************************************)
(* Claims about duplicate() (checked under SpecDup)                        *)
(***************************************************************************)
RuleIds(rules) == {rules[k].id : k \in 1..Len(rules)}
DayIds(rs) ==
    {rs.day_ids.default, rs.day_ids.summer, rs.day_ids.winter}
    \cup {rs.schedule_rules[k].day_id : k \in 1..Len(rs.schedule_rules)}
SelfChanges ==
    {"add_rule", "remove_rule", "reorder_rule", "[k].start_date",
     "[k].end_date", "[k].apply_holiday"}
OtherChanges ==
    {"other.add_rule", "other.remove_rule", "other.reorder_rule",
     "other[k].start_date", "other[k].end_date", "other[k].apply_holiday"}

\* C16: duplicate() returns a schedule equal to the original; the copy holds
\* no rule object and no day object of the original; and from then on a change
\* made through the copy (add_rule, remove_rule, reorder_rule, an assignment of
\* a rule's start_date, end_date or apply_holiday) leaves the rule list and the
\* rule fields of the original as they were, and the other way round.
C16_DuplicateIsIndependentDeepCopy ==
    /\ [](ret.op = "duplicate" =>
            /\ ret.raised = None
            /\ RulesetKey(Self) = RulesetKey(other))
    /\ [](other # NoOther =>
            /\ RuleIds(schedule_rules) \cap RuleIds(other.schedule_rules) = {}
            /\ DayIds(Self) \cap DayIds(other) = {})
    /\ [][/\ ret'.op \in OtherChanges => schedule_rules' = schedule_rules
          /\ (ret'.op \in SelfChanges /\ other # NoOther) => other' = other]_vars

(***************************************************************************)
(* Claims about __eq__ and __hash__ (checked under SpecEq)                 *)
(***************************************************************************)
SameRule(a, b) ==
    /\ a.schedule_day = b.schedule_day
    /\ week_apply_tuple(a) = week_apply_tuple(b)
    /\ a.apply_holiday = b.apply_holiday
    /\ a.start_date = b.start_date
    /\ a.end_date = b.end_date
SameRulesSameOrder(a, b) ==
    /\ Len(a) = Len(b)
    /\ \A k \in 1..Len(a) : SameRule(a[k], b[k])
SameProfilesRulesAndTypeLimit ==
    /\ default_day_schedule = other.default_day_schedule
    /\ SameRulesSameOrder(schedule_rules, other.schedule_rules)
    /\ summer_designday_schedule = other.summer_designday_schedule
    /\ winter_designday_schedule = other.winter_designday_schedule
    /\ schedule_type_limit = other.schedule_type_limit
TwoDistinctRulesSwapped ==
    /\ Len(schedule_rules) = 2
    /\ Len(other.schedule_rules) = 2
    /\ ~SameRule(schedule_rules[1], schedule_rules[2])
    /\ SameRule(schedule_rules[1], other.schedule_rules[2])
    /\ SameRule(schedule_rules[2], other.schedule_rules[1])

\* C17 as stated: two rulesets with the same default day, the same rules in the
\* same order, the same design days and the same type limit compare equal and
\* have equal hashes; two rulesets compare equal only if all of these match;
\* two distinct rules in swapped order make the rulesets unequal.
C17_EqualIffProfilesAndRulesMatch ==
    ret.op = "eq" =>
        /\ SameProfilesRulesAndTypeLimit => (ret.result /\ ret.hash_equal)
        /\ ret.result => SameProfilesRulesAndTypeLimit
        /\ TwoDistinctRulesSwapped => ~ret.result

\* C17, amended: the same with the name among what has to be identical for the
\* rulesets to compare equal and to have equal hashes.
C17_EqualIffNameProfilesAndRulesMatch ==
    ret.op = "eq" =>
        /\ (name = other.name /\ SameProfilesRulesAndTypeLimit)
               => (ret.result /\ ret.hash_equal)
        /\ ret.result => SameProfilesRulesAndTypeLimit
        /\ TwoDistinctRulesSwapped => ~ret.result

C17_Witness ==
    /\ ret.op = "eq"
    /\ ret.result /\ ret.hash_equal
    /\ name = "Office"
    /\ Len(schedule_rules) = 2
    /\ ~SameRule(schedule_rules[1], schedule_rules[2])
    /\ RuleIds(schedule_rules) \cap RuleIds(other.schedule_rules) = {}

(***************************************************************************)
(* Claims about average_schedules() (checked under SpecAvg)                *)
(***************************************************************************)
\* average_schedules was called with one weight for each schedule
WeightsGiven ==
    /\ ret.op = "average_schedules"
    /\ ~ret.args.weights.is_none
    /\ Len(ret.args.weights.list) = Len(ret.args.schedules)
WeightSum == SumSeq(ret.args.weights.list)

\* C20 as stated: weights whose sum is at most 1 are accepted and a schedule is
\* produced; weights whose sum is more than 1 raise and no schedule is produced.
C20_AcceptsSumAtMostOne ==
    WeightsGiven =>
        /\ WeightSum <= WeightOne => (ret.raised = None /\ ret.result # << >>)
        /\ WeightSum > WeightOne => (ret.raised # None /\ ret.result = << >>)

\* C20, amended: weights whose sum is exactly 1 are accepted and a schedule is
\* produced; weights whose sum is below 1 or above 1 raise and no schedule is
\* produced.
C20_AcceptsSumExactlyOne ==
    WeightsGiven =>
        /\ WeightSum = WeightOne => (ret.raised = None /\ ret.result # << >>)
        /\ WeightSum # WeightOne => (ret.raised # None /\ ret.result = << >>)

\* two weights that sum to three quarters were given and rejected
C20_Witness ==
    /\ WeightsGiven
    /\ Len(ret.args.weights.list) = 2
    /\ WeightSum = WeightOne - 1
    /\ ret.raised = "AssertionError"

(***************************************************************************)
(* Claims about date ranges (checked under SpecRuleDates)                  *)
(***************************************************************************)
\* C18: constructing a ScheduleRule and assigning its start_date or end_date
\* fail exactly when the start_date that results is after the end_date that
\* results; a range of a single day is accepted.
C18_RejectedIffStartAfterEnd ==
    ret.op \in {"ScheduleRule", "set_start_date", "set_end_date"} =>
        (ret.raised # None <=> DateLT(ret.end_date, ret.start_date))

\* C28: the cached start_doy and end_doy of a rule are the non-leap days of
\* the year of its start_date and end_date and start_date is not after
\* end_date, also after an assignment that was rejected; an assignment of
\* start_date or end_date that is rejected leaves the rule as it was.
C28_RejectedAssignmentLeavesRule ==
    /\ [](rule # NoRule =>
            /\ rule.start_doy = _doy_non_leap_year(rule.start_date)
            /\ rule.end_doy = _doy_non_leap_year(rule.end_date)
            /\ ~DateLT(rule.end_date, rule.start_date))
    /\ [][(ret'.op \in {"set_start_date", "set_end_date"} /\ ret'.raised # None)
            => rule' = rule]_vars

(***************************************************************************)
(* Claims about remove_rule() and reorder_rule() (checked under Spec)      *)
(***************************************************************************)
InBounds(rules, i) == i \in 0..(Len(rules) - 1)
\* the list without its element at index i
Without(rules, i) ==
    SubSeq(rules, 1, i) \o SubSeq(rules, i + 2, Len(rules))

\* C22: remove_rule(i) and reorder_rule(i, j) raise and leave schedule_rules
\* as it was when i or j is not in 0 .. len(schedule_rules) - 1; otherwise
\* remove_rule leaves the list without the rule at i, and reorder_rule leaves
\* that rule at index j with the other rules in the order they had.
C22_IndexOutOfBoundsFails ==
    [][/\ ret'.op = "remove_rule" =>
            IF InBounds(schedule_rules, ret'.rule_index)
            THEN /\ ret'.raised = None
                 /\ schedule_rules' = Without(schedule_rules, ret'.rule_index)
            ELSE /\ ret'.raised # None
                 /\ schedule_rules' = schedule_rules
       /\ ret'.op = "reorder_rule" =>
            IF /\ InBounds(schedule_rules, ret'.rule_index)
               /\ InBounds(schedule_rules, ret'.new_index)
            THEN /\ ret'.raised = None
                 /\ Len(schedule_rules') = Len(schedule_rules)
                 /\ schedule_rules'[ret'.new_index + 1]
                        = schedule_rules[ret'.rule_index + 1]
                 /\ Without(schedule_rules', ret'.new_index)
                        = Without(schedule_rules, ret'.rule_index)
            ELSE /\ ret'.raised # None
                 /\ schedule_rules' = schedule_rules]_vars

(***************************************************************************)
(* Claims about Setpoint (checked under SpecSetpoint)                      *)
(***************************************************************************)
\* C29: a Setpoint has a humidifying schedule exactly when it has a
\* dehumidifying schedule.
C29_HumidityPairTogether ==
    setpoint # NoSetpoint =>
        (setpoint.humidifying_schedule = NoSchedule
            <=> setpoint.dehumidifying_schedule = NoSchedule)

(***************************************************************************)
(* Claims about the hvac of a Room (checked under SpecHvac)                *)
(***************************************************************************)
\* the IdealAirSystem is the hvac of a Room
Assigned(hvac) == \E p \in 1..Len(rooms) : rooms[p].hvac = hvac

\* C30: no IdealAirSystem is the hvac of two different Rooms and the parent of
\* an assigned IdealAirSystem is the Room that holds it; the assignment of an
\* IdealAirSystem that has a parent raises ValueError and leaves the hvac of
\* the Room as it was; the assignment of an IdealAirSystem that is the hvac of
\* no Room succeeds.
C30_OneRoomPerHvac ==
    /\ [](\A p \in 1..Len(rooms) :
            rooms[p].hvac # 0 =>
                /\ hvacs[rooms[p].hvac] = rooms[p].host
                /\ \A q \in 1..Len(rooms) :
                      rooms[q].hvac = rooms[p].hvac
                          => rooms[q].host = rooms[p].host)
    /\ [][(ret'.op = "set_hvac" /\ ret'.value # 0) =>
            /\ hvacs[ret'.value] # 0 =>
                  (ret'.raised = "ValueError" /\ rooms' = rooms)
            /\ ~Assigned(ret'.value) =>
                  (ret'.raised = None /\ rooms'[ret'.room].hvac = ret'.value)]_vars

(***************************************************************************)
(* Claims about check_duplicate_schedule_names (checked under SpecModel)   *)
(***************************************************************************)
\* the schedules assigned in the Model, None left out
Collected ==
    {model.schedules[k] :
        k \in ({model.program_type[j] : j \in 1..Len(model.program_type)}
               \cup {model.lighting, model.transmittance_schedule}
               \cup (IF model.hvac.is_none THEN {}
                     ELSE {model.hvac.heating_availability_schedule,
                           model.hvac.cooling_availability_schedule}))
              \ {0}}
SameNameTwice == \E a \in Collected, b \in Collected : a # b /\ a.name = b.name

C27_LockedRulesetHoldsLockedObjects ==
    \A i \in 1..2 :
        sets[i]._locked =>
            /\ \A k \in 1..Len(sets[i].schedule_rules) :
                    sets[i].schedule_rules[k]._locked
            /\ \A d \in DaysOf(sets[i]) : day_locked[d]

(***************************************************************************)
(* Claims about to_rules (checked under SpecToRules)                       *)
(***************************************************************************)
\* the day profile that the rule list rules, over the default day default,
\* resolves to on day doy when it is the dow-th day of the week or a holiday
ProfileOn(rules, default, doy, dow, is_holiday) ==
    LET i == DayIndex(rules, doy, dow, IF is_holiday THEN {doy} ELSE {}, FALSE)
    IN  IF i < Len(rules) THEN rules[i + 1].schedule_day ELSE default

\* C25: a ruleset whose rule list is to_rules(start, end), start before end,
\* resolves every day of the period, for every day of the week and for
\* holidays, to the day profile that the ruleset itself resolves it to (the
\* default day of the ruleset that holds the list, "Outer", is never reached).
C25_ToRulesResolvesAsRuleset ==
    ret.op = "to_rules" =>
        /\ ret.raised = None
        /\ \A doy \in Doy(ret.args.start_date)..Doy(ret.args.end_date),
              dow \in 1..7, is_holiday \in BOOLEAN :
                ProfileOn(ret.result, "Outer", doy, dow, is_holiday)
                    = ProfileOn(schedule_rules, default_day_schedule, doy, dow,
                                is_holiday)

(***************************************************************************)
(* Claims about from_idf (checked under SpecFromIdf)                       *)
(***************************************************************************)
\* C26: from_idf succeeds, and the rules that an entry (week schedule name,
\* start date, end date) of the Schedule:Year yields carry the date range of
\* that entry in the result, also when several entries name the same week
\* schedule.
C26_EveryEntryKeepsItsRange ==
    ret.op = "from_idf" =>
        /\ ret.raised = None
        /\ \A k \in 1..Len(ret.args.fields) :
              \A j \in 1..Len(ret.entry_rules[k]) :
                  /\ ret.entry_rules[k][j].start_date
                         = Date(ret.args.fields[k].start_month,
                                ret.args.fields[k].start_day, FALSE)
                  /\ ret.entry_rules[k][j].end_date
                         = Date(ret.args.fields[k].end_month,
                                ret.args.fields[k].end_day, FALSE)

\* the timeline of a Schedule:Year: the date range and the week pattern (the
\* eight days and the design days) of every entry, whatever the weeks' names
Timeline(fields, week_schedules) ==
    [k \in 1..Len(fields) |->
        [start_month |-> fields[k].start_month, start_day |-> fields[k].start_day,
         end_month |-> fields[k].end_month, end_day |-> fields[k].end_day,
         days |-> week_schedules[fields[k].week].days,
         extra |-> week_schedules[fields[k].week].extra]]

\* C23: from_idf of the Schedule:Year and week schedules that to_idf emitted
\* succeeds, and to_idf of the ruleset it returns gives a timeline with the
\* same entries: as many, the same date ranges, the same week patterns.
C23_CompactionIdempotent ==
    /\ [][(ret.op = "to_idf" /\ ret'.op = "from_idf" /\ ret'.emitted)
              => ret'.raised = None]_vars
    /\ [][(ret.op = "from_idf" /\ ret.emitted /\ ret.raised = None
           /\ ret'.op = "to_idf")
              => /\ ret'.raised = None
                 /\ ret'.year_schedule.type = "Schedule:Year"
                 /\ Timeline(ret'.year_schedule.fields, ret'.week_schedules)
                        = Timeline(ret.args.fields, ret.args.week_schedules)]_vars

(***************************************************************************)
(* Claims about the averaged schedule (checked under SpecAvgYear)          *)
(***************************************************************************)
\* the weights average_schedules works with, when they are valid
ValidWeights ==
    IF ret.args.weights.is_none THEN EqualWeights(ret.args.schedules)
    ELSE ret.args.weights.list
WeightsAreValid ==
    /\ ret.op = "average_schedules"
    /\ \/ ret.args.weights.is_none
       \/ /\ Len(ret.args.weights.list) = Len(ret.args.schedules)
          /\ SumSeq(ret.args.weights.list) = WeightOne

\* the weighted sum of the values the input schedules have on a day
WeightedSumOn(doy, dow, is_holiday) ==
    SumSeq([i \in 1..Len(ret.args.schedules) |->
               DayValue(ProfileOn(ret.args.schedules[i].schedule_rules,
                                  ret.args.schedules[i].default_day_schedule,
                                  doy, dow, is_holiday))
               * ValidWeights[i]])

\* C21: for valid weights average_schedules returns a schedule that resolves,
\* on every day of the year, for every day of the week and for holidays, to
\* a day profile whose value is the weighted sum of the values that the
\* input schedules have on that day.
C21_AverageIsWeightedSumEveryDay ==
    WeightsAreValid =>
        /\ ret.raised = None
        /\ \A doy \in 1..365, dow \in 1..7, is_holiday \in BOOLEAN :
              ProfileOn(ret.schedule.schedule_rules,
                        ret.schedule.default_day_schedule, doy, dow, is_holiday)
                  = WeightedSumOn(doy, dow, is_holiday)

====
